---- MODULE Spec2Model ----
(***************************************************************************)
(* A model of the grid executor of GirdBot_HB (src/grid_executor.py), of   *)
(* the level and tracked-order records it drives (src/data_models.py) and  *)
(* of the order calls of the connector (src/binance_connector.py).         *)
(*                                                                         *)
(* Decimal prices are integers counted in price increments; fractions      *)
(* (take_profit_pct, safe_extra_spread, activation_bounds) are integers    *)
(* counted in 1/Den, and every comparison of the code is made exactly, by  *)
(* cross-multiplication.  Amounts are integers counted in base increments. *)
(***************************************************************************)
EXTENDS Integers, Sequences, FiniteSets, TLC

VARIABLES
    config,                       \* GridExecutorConfig (fixed per run)
    grid_levels,                  \* GridExecutor.grid_levels
    open_orders_to_create,        \* control_task: levels still to be opened in this tick
    close_orders_to_create,       \* control_task: levels still to get a close order
    open_order_ids_to_cancel,     \* control_task: open orders still to be cancelled
    close_order_ids_to_cancel,    \* control_task: close orders still to be cancelled
    status,                       \* GridExecutor._status
    current_retries,              \* GridExecutor._current_retries
    since_open_creation,          \* time.time() - max_open_creation_timestamp,
                                  \*   in seconds, counted up to order_frequency
    filled_orders,                \* len(GridExecutor._filled_orders),
                                  \*   counted up to MaxFilledOrders
    mid_price,                    \* connector.get_mid_price()
    exchange,                     \* the venue's orders of this account, by id
    venue_fee,                    \* the fee the venue charges per filled base unit
    trading_rules,                \* connector.trading_rules (TradingRule, fixed per run)
    controller,                   \* StrategyController and what it sees of its executors
    websocket,                    \* BinanceConnector: the reconnect state of the
                                  \*   websocket loop and where its task stands
    last_call                     \* the last call of a function of the program from
                                  \*   outside the control loop: its name, its
                                  \*   arguments and what it returned or left behind

vars == <<config, grid_levels, open_orders_to_create, close_orders_to_create,
          open_order_ids_to_cancel, close_order_ids_to_cancel, status,
          current_retries, since_open_creation, filled_orders, mid_price,
          exchange, venue_fee, trading_rules, last_call, controller,
          websocket>>

tickvars == <<open_orders_to_create, close_orders_to_create,
              open_order_ids_to_cancel, close_order_ids_to_cancel>>

----------------------------------------------------------------------------
(* Bounds of the model *)

NumLevels == 2
MaxOrphans == 1
MaxFilledOrders == 2
MantissaBits == 4
Den == 100

(* Values of the configuration and of the trading rules the model runs with *)

StartPrice == 96
EndPrice == 104
AmountQuote == 300
MaxOpenOrders == 2
MaxRetries == 1
TakeProfitPct == 1
SafeExtraSpread == 1
ActivationBounds == 3
OrderFrequency == 2
MinPriceIncrement == 1
MinBaseAmountIncrement == 1
MinOrderSize == 1
MinNotional == 5
MinOrderAmountQuote == 5
MinSpreadBetweenOrders == 5
Leverage == 2

LevelIds == 0 .. (NumLevels - 1)
Mids == {StartPrice + (EndPrice - StartPrice) \div 4,
         EndPrice - (EndPrice - StartPrice) \div 4}
MaxFill == (2 * AmountQuote) \div (NumLevels * StartPrice)
Min(a, b) == IF a < b THEN a ELSE b

Abs(x) == IF x < 0 THEN -x ELSE x

Max(a, b) == IF a > b THEN a ELSE b

\* math.ceil(a / b) for positive a and b
CeilDiv(a, b) == (a + b - 1) \div b

----------------------------------------------------------------------------
(* data_models.py *)

\* TrackedOrder with its defaults; order_id = 0 stands for "no order" (None)
None ==
    [order_id |-> 0, price |-> 0, is_done |-> FALSE, is_filled |-> FALSE,
     executed_amount_base |-> 0, executed_amount_quote |-> 0,
     cum_fees_quote |-> 0]

TrackedOrder(id, price) ==
    [None EXCEPT !.order_id = id, !.price = price]

\* str.upper() on the status strings of StatusStrings; a string that has no
\* lower-case letter is its own upper case
Upper(s) ==
    CASE s = "open" -> "OPEN"
      [] s = "closed" -> "CLOSED"
      [] s = "canceled" -> "CANCELED"
      [] s = "expired" -> "EXPIRED"
      [] s = "rejected" -> "REJECTED"
      [] s = "unknown" -> "UNKNOWN"
      [] s = "Filled" -> "FILLED"
      [] s = "new" -> "NEW"
      [] OTHER -> s

\* A variant of update_from_exchange_data that takes the reported amounts as
\* increments instead of totals
update_adding_amounts(t, order_data) ==
    LET st == Upper(order_data.status) IN
    [t EXCEPT
       !.is_filled = st \in {"CLOSED", "FILLED"},
       !.is_done = st \in {"CLOSED", "FILLED", "CANCELED", "EXPIRED"},
       !.executed_amount_base = @ + order_data.filled,
       !.executed_amount_quote = @ + order_data.cost,
       !.cum_fees_quote = IF order_data.has_fee THEN order_data.fee ELSE @]

\* TrackedOrder.update_from_exchange_data.  order_data is a REST answer
\* [status, filled, cost, has_fee, fee], whose filled and cost are numbers, or
\* an ORDER_TRADE_UPDATE event [X, z, Z], whose z and Z are strings (true
\* whatever the number they spell) and which has no fee key.
update_from_exchange_data(t, order_data) ==
    LET event == "X" \in DOMAIN order_data
        st == Upper(IF event THEN order_data.X ELSE order_data.status)
        filled_qty == IF event THEN order_data.z ELSE order_data.filled
        filled_quote == IF event THEN order_data.Z ELSE order_data.cost
    IN
    [t EXCEPT
       !.is_filled = st \in {"CLOSED", "FILLED"},
       !.is_done = st \in {"CLOSED", "FILLED", "CANCELED", "EXPIRED"},
       !.executed_amount_base =
           IF event \/ filled_qty # 0 THEN filled_qty ELSE @,
       !.executed_amount_quote =
           IF event \/ filled_quote # 0 THEN filled_quote ELSE @,
       !.cum_fees_quote =
           IF ~event /\ order_data.has_fee THEN order_data.fee ELSE @]

\* GridLevel.update_state: the state derived from the two slots
DerivedState(open, close) ==
    IF open = None THEN "NOT_ACTIVE"
    ELSE IF ~open.is_done THEN "OPEN_ORDER_PLACED"
    ELSE IF open.is_filled THEN
        IF close = None THEN "OPEN_ORDER_FILLED"
        ELSE IF ~close.is_done THEN "CLOSE_ORDER_PLACED"
        ELSE IF close.is_filled THEN "COMPLETE"
        ELSE "OPEN_ORDER_FILLED"
    ELSE "NOT_ACTIVE"

update_state(level) ==
    [level EXCEPT
       !.state = DerivedState(level.active_open_order, level.active_close_order)]

reset_open_order(level) ==
    [level EXCEPT !.active_open_order = None, !.state = "NOT_ACTIVE"]

\* A variant of reset_close_order that empties the slot and leaves the state
reset_close_order_slot_only(level) ==
    [level EXCEPT !.active_close_order = None]

reset_close_order(level) ==
    [level EXCEPT !.active_close_order = None, !.state = "OPEN_ORDER_FILLED"]

\* A variant of reset_level that forgets the close slot
reset_level_open_only(level) ==
    [level EXCEPT !.active_open_order = None, !.state = "NOT_ACTIVE"]

\* A variant of reset_level that also clears the level's amount
reset_level_and_amount(level) ==
    [level EXCEPT !.active_open_order = None, !.active_close_order = None,
                  !.state = "NOT_ACTIVE", !.amount_quote = 0]

reset_level(level) ==
    [level EXCEPT !.active_open_order = None, !.active_close_order = None,
                  !.state = "NOT_ACTIVE"]

\* _linear_distribution: the price of level i of the ladder
LevelPrice(i) ==
    IF NumLevels = 1 THEN (StartPrice + EndPrice) \div 2
    ELSE StartPrice + (i * (EndPrice - StartPrice)) \div (NumLevels - 1)

\* GridLevel as _generate_grid_levels creates it
NewLevel(i, amount_quote) ==
    [id |-> i, price |-> LevelPrice(i), amount_quote |-> amount_quote,
     side |-> config.side, order_type |-> "LIMIT",
     take_profit_pct |-> TakeProfitPct,
     active_open_order |-> None, active_close_order |-> None,
     state |-> "NOT_ACTIVE"]

----------------------------------------------------------------------------
(* binance_connector.py and the venue behind it *)

\* The ids the venue gives to orders.  An id is opaque to the code: the
\* model gives the order a level holds in its open or close slot the id
\* Home of that slot, and any other order (one the code never came to
\* track, or one placed while the slot's former order is still in the book)
\* one of MaxOrphans further ids.  An order that is terminal and that no
\* level tracks is never read again: the venue's record of it is dropped.
OrderSlots == 1 .. (2 * NumLevels + MaxOrphans)

Home(l, role) == 2 * l + (IF role = "open" THEN 1 ELSE 2)

Free ==
    [status |-> "none", filled |-> 0, price |-> 0, amount |-> 0,
     side |-> "BUY", order_type |-> "LIMIT", position_action |-> "OPEN",
     reduce_only |-> FALSE, positionSide |-> "LONG", role |-> "none",
     level |-> 0]

OrderIds == {i \in OrderSlots : exchange[i].status # "none"}

OpenIds == {i \in OrderSlots : exchange[i].status = "open"}

FreeIds(book) == {i \in OrderSlots : book[i].status = "none"}

\* A variant of _quantize_price that rounds down to a whole unit
quantize_to_unit(num, den) == num \div den

\* _quantize_price and _quantize_amount of a Decimal num/den:
\* (x // increment) * increment
quantize_price(num, den) ==
    (num \div (den * trading_rules.min_price_increment))
        * trading_rules.min_price_increment

quantize_amount(num, den) ==
    (num \div (den * trading_rules.min_base_amount_increment))
        * trading_rules.min_base_amount_increment

\* A variant of PositionSide that follows the order side alone
PositionSideOfOrderSide(order_side, position_action) ==
    IF order_side = "BUY" THEN "LONG" ELSE "SHORT"

\* place_order: the hedge-mode positionSide of an order
PositionSide(order_side, position_action) ==
    IF order_side = "BUY"
    THEN (IF position_action = "OPEN" THEN "LONG" ELSE "SHORT")
    ELSE (IF position_action = "OPEN" THEN "SHORT" ELSE "LONG")

\* place_order: reduce_only is set for CLOSE
ReduceOnly(position_action) == position_action = "CLOSE"

\* place_order: amounts below min_order_size are raised to it
OrderAmount(amount) ==
    IF amount < trading_rules.min_order_size
    THEN trading_rules.min_order_size ELSE amount

\* place_order: the order as create_order submits it.  candidate.price and
\* candidate.amount are the quantized values; role and level record what the
\* executor placed the order for.
VenueOrder(c) ==
    [status |-> "open",
     filled |-> 0,
     price |-> c.price,
     amount |-> OrderAmount(c.amount),
     side |-> c.order_side,
     order_type |-> c.order_type,
     position_action |-> c.position_action,
     reduce_only |-> ReduceOnly(c.position_action),
     positionSide |-> PositionSide(c.order_side, c.position_action),
     role |-> c.role,
     level |-> c.level]

\* A variant of the minimum-notional check that lets every order pass
NotionalUnchecked(c) == TRUE

\* place_order: the minimum-notional check on the quantized limit order
NotionalOk(c) ==
    OrderAmount(c.amount) * c.price >= trading_rules.min_notional_size

\* The outcomes of create_order: the venue accepts the order and answers
\* ("ok"), refuses or is not reached ("fail"), or accepts the order and the
\* answer is lost to an exception ("lost")
PlaceOutcomes == {"ok", "fail", "lost"}

\* The id the venue gives the order, 0 if its book is full
NewId(book, c, outcome) ==
    LET spare == {i \in FreeIds(book) : i > 2 * NumLevels} IN
    IF outcome = "ok" /\ Home(c.level, c.role) \in FreeIds(book)
    THEN Home(c.level, c.role)
    ELSE IF spare # {} THEN CHOOSE i \in spare : \A k \in spare : i <= k
    ELSE 0

\* place_order: does the order reach the venue's book
Accepted(book, c, outcome) ==
    /\ NotionalOk(c)
    /\ outcome \in {"ok", "lost"}
    /\ NewId(book, c, outcome) # 0

\* place_order: the venue's orders afterwards
ExchangeAfterPlace(book, c, outcome) ==
    IF Accepted(book, c, outcome)
    THEN [book EXCEPT ![NewId(book, c, outcome)] = VenueOrder(c)]
    ELSE book

\* place_order: order_result['id'], or 0 for None
PlaceResult(book, c, outcome) ==
    IF Accepted(book, c, outcome) /\ outcome = "ok"
    THEN NewId(book, c, outcome) ELSE 0

\* fetch_order: the REST snapshot of an order
FetchOrder(id) ==
    LET o == exchange[id] IN
    [status |-> o.status, filled |-> o.filled, cost |-> o.filled * o.price,
     has_fee |-> o.filled * venue_fee > 0, fee |-> o.filled * venue_fee]

\* The outcomes of exchange.cancel_order on an order
CancelOutcomes == {"ok", "fail", "lost"}

\* cancel_order: does the venue cancel the order (only a live order can be)
Cancelled(id, outcome) == id \in OpenIds /\ outcome \in {"ok", "lost"}

\* cancel_order: True iff exchange.cancel_order returned
CancelSuccess(id, outcome) == id \in OpenIds /\ outcome = "ok"

ExchangeAfterCancel(ids) ==
    [i \in OrderSlots |->
        IF i \in ids THEN [exchange[i] EXCEPT !.status = "canceled"]
        ELSE exchange[i]]

----------------------------------------------------------------------------
(* grid_executor.py: refresh and state derivation *)

LevelSeq == [i \in 1 .. NumLevels |-> i - 1]

\* Optional[Decimal]: <<>> is None, <<v>> is the value v
Truthy(opt) == opt # <<>> /\ opt[1] # 0

\* The orders a set of levels tracks
TrackedIds(levels) ==
    {levels[l].active_open_order.order_id : l \in LevelIds}
    \cup {levels[l].active_close_order.order_id : l \in LevelIds}

\* update_all_order_status on one slot: only orders not yet done are asked
\* for, and an order whose query failed (not in ok) is skipped
BulkUpdate(t, ok) ==
    IF t # None /\ ~t.is_done /\ t.order_id \in ok
    THEN update_from_exchange_data(t, FetchOrder(t.order_id))
    ELSE t

update_all_order_status(levels, ok) ==
    [l \in LevelIds |->
        [levels[l] EXCEPT !.active_open_order = BulkUpdate(@, ok),
                          !.active_close_order = BulkUpdate(@, ok)]]

\* _update_order_status: every order held in a slot is asked for again
UpdateOrderStatus(t, ok) ==
    IF t # None /\ t.order_id \in ok
    THEN update_from_exchange_data(t, FetchOrder(t.order_id))
    ELSE t

\* update_grid_levels, first loop: re-poll both slots, then update_state
PolledLevels(levels, ok) ==
    [l \in LevelIds |->
        update_state([levels[l] EXCEPT
                        !.active_open_order = UpdateOrderStatus(@, ok),
                        !.active_close_order = UpdateOrderStatus(@, ok)])]

\* levels_by_state[st], in ladder order
levels_by_state(levels, st) ==
    SelectSeq(LevelSeq, LAMBDA l : levels[l].state = st)

\* update_grid_levels: is the level of the COMPLETE bucket reset
Completed(level) ==
    /\ level.state = "COMPLETE"
    /\ level.active_open_order # None /\ level.active_open_order.is_filled
    /\ level.active_close_order # None /\ level.active_close_order.is_filled

ResetCompleted(levels) ==
    [l \in LevelIds |->
        IF Completed(levels[l]) THEN reset_level(levels[l]) ELSE levels[l]]

\* update_grid_levels: the number of orders appended to _filled_orders
CompletedOrders(levels) ==
    2 * Cardinality({l \in LevelIds : Completed(levels[l])})

\* A variant of HandleFailed that leaves a failed open order in its slot
HandleFailedCloseOnly(level) ==
    IF /\ level.active_close_order # None
       /\ level.active_close_order.is_done
       /\ ~level.active_close_order.is_filled
    THEN reset_close_order(level) ELSE level

\* _handle_failed_orders on one level
HandleFailed(level) ==
    LET a == IF /\ level.active_open_order # None
                /\ level.active_open_order.is_done
                /\ ~level.active_open_order.is_filled
             THEN reset_open_order(level) ELSE level
    IN  IF /\ a.active_close_order # None
           /\ a.active_close_order.is_done
           /\ ~a.active_close_order.is_filled
        THEN reset_close_order(a) ELSE a

handle_failed_orders(levels) == [l \in LevelIds |-> HandleFailed(levels[l])]

\* update_grid_levels, after the buckets are filled
update_grid_levels(polled) == handle_failed_orders(ResetCompleted(polled))

----------------------------------------------------------------------------
(* grid_executor.py: the decisions of a tick.  polled are the levels as   *)
(* bucketed (levels_by_state); levels are the levels after the resets.     *)

\* A variant of LevelAllowed with the bounds of the two sides exchanged
LevelAllowedSidesSwapped(price) ==
    IF Truthy(config.activation_bounds)
    THEN IF config.side = "BUY"
         THEN price * Den <= mid_price * (Den + config.activation_bounds[1])
         ELSE price * Den >= mid_price * (Den - config.activation_bounds[1])
    ELSE TRUE

\* _filter_levels_by_activation_bounds: is a NOT_ACTIVE level allowed
\*   BUY:  level.price >= mid * (1 - activation_bounds)
\*   SELL: level.price <= mid * (1 + activation_bounds)
LevelAllowed(price) ==
    IF Truthy(config.activation_bounds)
    THEN IF config.side = "BUY"
         THEN price * Den >= mid_price * (Den - config.activation_bounds[1])
         ELSE price * Den <= mid_price * (Den + config.activation_bounds[1])
    ELSE TRUE

filter_levels_by_activation_bounds(polled) ==
    SelectSeq(levels_by_state(polled, "NOT_ACTIVE"),
              LAMBDA l : LevelAllowed(polled[l].price))

\* _sort_levels_by_proximity: sorted() by |level.price - mid|, stable
RECURSIVE InsertByProximity(_, _)
InsertByProximity(sorted, l) ==
    IF sorted = <<>> THEN <<l>>
    ELSE IF Abs(LevelPrice(l) - mid_price) < Abs(LevelPrice(Head(sorted)) - mid_price)
         THEN <<l>> \o sorted
         ELSE <<Head(sorted)>> \o InsertByProximity(Tail(sorted), l)

RECURSIVE sort_levels_by_proximity(_)
sort_levels_by_proximity(ls) ==
    IF ls = <<>> THEN <<>>
    ELSE InsertByProximity(
             sort_levels_by_proximity(SubSeq(ls, 1, Len(ls) - 1)), ls[Len(ls)])

\* get_open_orders_to_create: is the tick inside the cooldown
\*   max_open_creation_timestamp > current_time - order_frequency
InCooldown == since_open_creation < config.order_frequency

\* A variant of get_open_orders_to_create that returns every candidate
all_open_orders_to_create(polled) ==
    IF InCooldown THEN <<>>
    ELSE sort_levels_by_proximity(filter_levels_by_activation_bounds(polled))

get_open_orders_to_create(polled) ==
    LET n_open_orders == Len(levels_by_state(polled, "OPEN_ORDER_PLACED"))
        sorted == sort_levels_by_proximity(filter_levels_by_activation_bounds(polled))
        max_new_orders == config.max_open_orders - n_open_orders
    IN  IF InCooldown \/ n_open_orders >= config.max_open_orders
        THEN <<>>
        ELSE SubSeq(sorted, 1, IF max_new_orders < Len(sorted)
                               THEN max_new_orders ELSE Len(sorted))

\* _get_take_profit_price, as the numerator of a fraction over Den
get_take_profit_price(level) ==
    IF level.active_open_order = None THEN 0
    ELSE IF config.side = "BUY"
         THEN level.active_open_order.price * (Den + level.take_profit_pct)
         ELSE level.active_open_order.price * (Den - level.take_profit_pct)

\* get_close_orders_to_create:
\*   abs(take_profit_price - mid_price) / mid_price < activation_bounds
CloseAllowed(level) ==
    IF Truthy(config.activation_bounds)
    THEN Abs(get_take_profit_price(level) - mid_price * Den)
            < config.activation_bounds[1] * mid_price
    ELSE TRUE

\* A variant of get_close_orders_to_create that waits for the cooldown as
\* get_open_orders_to_create does
close_orders_outside_cooldown(polled, levels) ==
    IF InCooldown THEN <<>>
    ELSE SelectSeq(levels_by_state(polled, "OPEN_ORDER_FILLED"),
                   LAMBDA l : CloseAllowed(levels[l]))

\* A variant of get_close_orders_to_create that reads the buckets as they
\* were before the tick's refresh and state derivation
close_orders_before_refresh(polled, levels) ==
    SelectSeq(levels_by_state(grid_levels, "OPEN_ORDER_FILLED"),
              LAMBDA l : CloseAllowed(levels[l]))

get_close_orders_to_create(polled, levels) ==
    SelectSeq(levels_by_state(polled, "OPEN_ORDER_FILLED"),
              LAMBDA l : CloseAllowed(levels[l]))

\* get_open_order_ids_to_cancel / get_close_order_ids_to_cancel:
\*   abs(order.price - mid_price) / mid_price > activation_bounds
TooFar(order) ==
    /\ order # None
    /\ order.price # 0
    /\ Abs(order.price - mid_price) * Den > config.activation_bounds[1] * mid_price

RECURSIVE OrderIdsOf(_, _, _)
OrderIdsOf(ls, levels, slot) ==
    IF ls = <<>> THEN <<>>
    ELSE <<(IF slot = "open" THEN levels[Head(ls)].active_open_order
            ELSE levels[Head(ls)].active_close_order).order_id>>
         \o OrderIdsOf(Tail(ls), levels, slot)

get_open_order_ids_to_cancel(polled, levels) ==
    IF Truthy(config.activation_bounds)
    THEN OrderIdsOf(SelectSeq(levels_by_state(polled, "OPEN_ORDER_PLACED"),
                              LAMBDA l : TooFar(levels[l].active_open_order)),
                    levels, "open")
    ELSE <<>>

get_close_order_ids_to_cancel(polled, levels) ==
    IF Truthy(config.activation_bounds)
    THEN OrderIdsOf(SelectSeq(levels_by_state(polled, "CLOSE_ORDER_PLACED"),
                              LAMBDA l : TooFar(levels[l].active_close_order)),
                    levels, "close")
    ELSE <<>>

----------------------------------------------------------------------------
(* grid_executor.py: placing and cancelling *)

\* The venue's record of a terminal order that no level tracks is dropped
Forget(book, levels) ==
    [i \in OrderSlots |->
        IF /\ book[i].status \in {"closed", "canceled", "rejected"}
           /\ i \notin TrackedIds(levels)
        THEN Free ELSE book[i]]

\* The grid's open side and the opposite side
CloseSide == IF config.side = "BUY" THEN "SELL" ELSE "BUY"

\* adjust_and_place_open_order: the candidate, quantized by place_order
OpenCandidate(l) ==
    [order_type |-> grid_levels[l].order_type, order_side |-> config.side,
     amount |-> quantize_amount(grid_levels[l].amount_quote,
                                grid_levels[l].price),
     price |-> quantize_price(grid_levels[l].price, 1),
     position_action |-> "OPEN", role |-> "open", level |-> l]

adjust_and_place_open_order(l, outcome) ==
    LET c == OpenCandidate(l)
        order_result == PlaceResult(exchange, c, outcome)
    IN  /\ exchange' = ExchangeAfterPlace(exchange, c, outcome)
        /\ IF order_result # 0
           THEN /\ grid_levels' =
                     [grid_levels EXCEPT
                        ![l].active_open_order =
                            TrackedOrder(order_result, grid_levels[l].price),
                        ![l].state = "OPEN_ORDER_PLACED"]
                /\ since_open_creation' = 0
           ELSE UNCHANGED <<grid_levels, since_open_creation>>

\* adjust_and_place_close_order: the close price before quantization, as the
\* numerator of a fraction over Den
ClosePriceNum(level) ==
    LET base_close_price == get_take_profit_price(level)
        current_price == mid_price * Den
    IN  IF config.side = "BUY"
        THEN IF base_close_price <= current_price
             THEN mid_price * (Den + SafeExtraSpread)
             ELSE base_close_price
        ELSE IF base_close_price >= current_price
             THEN mid_price * (Den - SafeExtraSpread)
             ELSE base_close_price

\* adjust_and_place_close_order: the close amount before quantization, as
\* the numerator of a fraction over FeeAdjustmentDen
\*   close_amount = executed_amount_base * (1 - 0.001) if fees were charged
FeeAdjustmentDen == 1000

\* A variant of the close amount that takes no fee adjustment
close_amount_unadjusted(level) ==
    level.active_open_order.executed_amount_base * FeeAdjustmentDen

CloseAmountNum(level) ==
    LET close_amount == level.active_open_order.executed_amount_base IN
    IF level.active_open_order.cum_fees_quote > 0
    THEN close_amount * FeeAdjustmentDen - close_amount
    ELSE close_amount * FeeAdjustmentDen

CloseCandidate(l, level) ==
    [order_type |-> "LIMIT", order_side |-> CloseSide,
     amount |-> quantize_amount(CloseAmountNum(level), FeeAdjustmentDen),
     price |-> quantize_price(ClosePriceNum(level), Den),
     position_action |-> "CLOSE", role |-> "close", level |-> l]

\* cancel_order: the levels after a cancel the venue confirmed; the first
\* level holding the order in a slot is reset
LevelsAfterCancel(levels, order_id) ==
    LET hit == {l \in LevelIds :
                   \/ levels[l].active_open_order.order_id = order_id
                   \/ levels[l].active_close_order.order_id = order_id}
        first == CHOOSE l \in hit : \A k \in hit : l <= k
    IN  IF hit = {} THEN levels
        ELSE IF levels[first].active_open_order.order_id = order_id
             THEN [levels EXCEPT ![first] = reset_open_order(@)]
             ELSE [levels EXCEPT ![first] = reset_close_order(@)]

\* A variant of cancel_order that resets the slot whatever the venue answered
cancel_order_unconfirmed(levels, order_id, outcome) ==
    LevelsAfterCancel(levels, order_id)

cancel_order(levels, order_id, outcome) ==
    IF CancelSuccess(order_id, outcome)
    THEN LevelsAfterCancel(levels, order_id)
    ELSE levels

\* cancel_open_orders: the levels after cancel_all_orders returned True
LevelsAfterCancelAll(levels) ==
    [l \in LevelIds |->
        LET a == IF /\ levels[l].active_open_order # None
                    /\ ~levels[l].active_open_order.is_filled
                 THEN reset_open_order(levels[l]) ELSE levels[l]
        IN  IF /\ a.active_close_order # None
               /\ ~a.active_close_order.is_filled
            THEN reset_close_order(a) ELSE a]

\* cancel_open_orders followed by close_open_positions.  seen are the orders
\* get_open_orders returned (none if the call failed); outcome tells whether
\* the venue cancelled them and cancel_all_orders returned True ("ok"),
\* cancelled them with an answer lost ("lost") or cancelled none ("fail").
\* A batch of which the venue cancels a part is the venue ending that part
\* (VenueEnd) before a batch that fails.  close_open_positions changes the
\* position at the venue only, which is not part of this state.
Shutdown(levels, seen, outcome) ==
    LET after == IF outcome = "ok" THEN LevelsAfterCancelAll(levels) ELSE levels
        cancelled == IF outcome = "fail" THEN {} ELSE seen
    IN  /\ grid_levels' = after
        /\ exchange' = Forget(ExchangeAfterCancel(cancelled), after)

----------------------------------------------------------------------------
(* The state after construction *)

\* GridExecutorConfig: the fields the executor reads, and the max_retries
\* the executor is constructed with
Config(side, activation_bounds, order_frequency, max_open_orders, amount) ==
    [side |-> side, activation_bounds |-> activation_bounds,
     order_frequency |-> order_frequency, max_open_orders |-> max_open_orders,
     total_amount_quote |-> amount, max_retries |-> MaxRetries]

\* StrategyController: its accounts A and B with the connectors of that
\* name, and its executors long (on A) and short (on B)
Accounts == {"A", "B"}

Executors == {"long", "short"}

\* The free balances get_balance reports for an account
Balances == {AmountQuote \div 3, AmountQuote \div Leverage}

\* start(): its steps in the order of the code
StartSteps ==
    <<"initialize_connectors", "cleanup_accounts", "balance_funds",
      "initialize_executors", "validate_dual_account_balance",
      "start_executors", "start_monitoring">>

StepIndex(step) == CHOOSE i \in 1 .. Len(StartSteps) : StartSteps[i] = step

\* stop(): nothing of it has run
NoStop ==
    [pc |-> "none", caller |-> "none", awaited |-> "none",
     shutdown |-> [e \in Executors |-> "none"],
     cleanup |-> [a \in Accounts |-> "none"],
     verified |-> "none"]

\* StrategyController.__init__
NewController ==
    [is_running |-> FALSE,
     start_pc |-> "not_called",
     failed_step |-> "none",
     steps_run |-> {},
     connectors |-> {},
     connected |-> {},
     cleaned |-> {},
     available |-> [a \in Accounts |-> 0],
     executors |-> [e \in Executors |-> "none"],
     retries |-> [e \in Executors |-> 0],
     control_task_handle |-> [e \in Executors |-> "none"],
     executor_tasks |-> [e \in Executors |-> "none"],
     monitor_task |-> "none",
     monitor_pc |-> "loop",
     stop |-> NoStop]

\* No function has been called from outside the control loop
NoCall == [op |-> "none"]

\* The reconnect settings of BinanceConnector.__init__
MaxReconnectAttempts == 10
ReconnectDelay == 5
MaxReconnectDelay == 60

\* self.listenKey is None or a key
NoListenKey == "None"
ListenKeys == {NoListenKey, "key"}

\* BinanceConnector.__init__: the websocket fields.  task is "none" before
\* create_task, "ready" while the loop is about to test its while condition
\* after the event loop has run, "spinning" while it is about to test it
\* without having given up control since the last pass, "connecting" and
\* "connected" while it is suspended in _connect_websocket, "sleeping" while
\* it is suspended in asyncio.sleep(delay), "done" once it has ended.
NewWebsocket ==
    [websocket_running |-> FALSE, listenKey |-> NoListenKey,
     reconnect_attempts |-> 0, connection_healthy |-> TRUE,
     task |-> "none", delay |-> 0]

\* TradingRule as _get_trading_rules loads it
TradingRule(price_increment, amount_increment, min_order_size, min_notional_size) ==
    [min_price_increment |-> price_increment,
     min_base_amount_increment |-> amount_increment,
     min_order_size |-> min_order_size,
     min_notional_size |-> min_notional_size]

\* The rules of a pair whose ticks are the units prices and amounts are
\* counted in
Rules ==
    {TradingRule(MinPriceIncrement, MinBaseAmountIncrement, MinOrderSize,
                 MinNotional)}

\* GridExecutor.__init__ for a configuration of configs and a pair with one
\* of rules, at a venue that charges one of fees
InitExecutor(configs, fees, rules) ==
    /\ config \in configs
    /\ trading_rules \in rules
    /\ last_call = NoCall
    /\ controller = NewController
    /\ grid_levels =
          [l \in LevelIds |-> NewLevel(l, config.total_amount_quote \div NumLevels)]
    /\ open_orders_to_create = <<>>
    /\ close_orders_to_create = <<>>
    /\ open_order_ids_to_cancel = <<>>
    /\ close_order_ids_to_cancel = <<>>
    /\ status = "NOT_STARTED"
    /\ current_retries = 0
    /\ since_open_creation = config.order_frequency
    /\ filled_orders = 0
    /\ mid_price \in Mids
    /\ exchange = [i \in OrderSlots |-> Free]
    /\ venue_fee \in fees

\* The executor with a connector as BinanceConnector.__init__ leaves it
InitWith(configs, fees, rules) ==
    /\ InitExecutor(configs, fees, rules)
    /\ websocket = NewWebsocket

\* Long and short grids, with and without activation bounds
Configs ==
    {Config(side, ab, 0, MaxOpenOrders, AmountQuote) :
        side \in {"BUY", "SELL"}, ab \in {<<>>, <<ActivationBounds>>}}

Init == InitWith(Configs, {0}, Rules)

\* No tick is in progress: every list of the last tick has been worked off
Idle ==
    /\ open_orders_to_create = <<>>
    /\ close_orders_to_create = <<>>
    /\ open_order_ids_to_cancel = <<>>
    /\ close_order_ids_to_cancel = <<>>

----------------------------------------------------------------------------
(* The executor *)

\* GridExecutor.start
Start ==
    /\ status = "NOT_STARTED"
    /\ status' = "RUNNING"
    /\ UNCHANGED <<config, websocket, controller, trading_rules, last_call, grid_levels, tickvars, current_retries,
                   since_open_creation, filled_orders, mid_price, exchange,
                   venue_fee>>

\* control_task, status RUNNING: refresh, state derivation and decisions.
\* ok are the orders whose status query succeeds in this tick, in
\* update_all_order_status and in update_grid_levels alike (the venue does
\* not move inside a tick, so an order asked for twice answers the same);
\* raises tells whether an exception escapes the decisions.
ControlTaskRunning(ok, raises) ==
    /\ Idle
    /\ status = "RUNNING"
    /\ LET polled == PolledLevels(update_all_order_status(grid_levels, ok), ok)
           levels == update_grid_levels(polled)
       IN  /\ grid_levels' = levels
           /\ exchange' = Forget(exchange, levels)
           /\ filled_orders' =
                 Min(filled_orders + CompletedOrders(polled), MaxFilledOrders)
           /\ IF raises
              THEN /\ UNCHANGED tickvars
                   /\ current_retries' = current_retries + 1
                   /\ status' = IF current_retries + 1 >= config.max_retries
                                THEN "SHUTTING_DOWN" ELSE status
              ELSE /\ open_orders_to_create' = get_open_orders_to_create(polled)
                   /\ close_orders_to_create' = get_close_orders_to_create(polled, levels)
                   /\ open_order_ids_to_cancel' = get_open_order_ids_to_cancel(polled, levels)
                   /\ close_order_ids_to_cancel' = get_close_order_ids_to_cancel(polled, levels)
                   /\ UNCHANGED <<current_retries, status>>
    /\ UNCHANGED <<config, websocket, controller, trading_rules, last_call, since_open_creation, mid_price, venue_fee>>

\* control_task, status SHUTTING_DOWN: refresh, state derivation,
\* cancel_open_orders, close_open_positions, TERMINATED
ControlTaskShuttingDown(ok, seen, outcome) ==
    /\ Idle
    /\ status = "SHUTTING_DOWN"
    /\ LET polled == PolledLevels(update_all_order_status(grid_levels, ok), ok)
       IN  /\ Shutdown(update_grid_levels(polled), seen, outcome)
           /\ filled_orders' =
                 Min(filled_orders + CompletedOrders(polled), MaxFilledOrders)
    /\ status' = "TERMINATED"
    /\ UNCHANGED <<config, websocket, controller, trading_rules, last_call, tickvars, current_retries, since_open_creation,
                   mid_price, venue_fee>>

\* A variant of step 5 in which a failed place call raises into
\* control_task: the rest of the tick is dropped and the except branch runs
PlaceOpenOrderUnguarded(outcome) ==
    /\ open_orders_to_create # <<>>
    /\ adjust_and_place_open_order(Head(open_orders_to_create), outcome)
    /\ IF outcome = "ok"
       THEN /\ open_orders_to_create' = Tail(open_orders_to_create)
            /\ UNCHANGED <<close_orders_to_create, open_order_ids_to_cancel,
                           close_order_ids_to_cancel, status, current_retries>>
       ELSE /\ open_orders_to_create' = <<>>
            /\ close_orders_to_create' = <<>>
            /\ open_order_ids_to_cancel' = <<>>
            /\ close_order_ids_to_cancel' = <<>>
            /\ current_retries' = current_retries + 1
            /\ status' = IF current_retries + 1 >= config.max_retries
                         THEN "SHUTTING_DOWN" ELSE status
    /\ UNCHANGED <<config, websocket, controller, trading_rules, last_call,
                   filled_orders, mid_price, venue_fee>>

\* control_task, step 5: one pass of the loop over open_orders_to_create
PlaceOpenOrder(outcome) ==
    /\ open_orders_to_create # <<>>
    /\ LET current_open_orders ==
               Cardinality({l \in LevelIds :
                               grid_levels[l].state = "OPEN_ORDER_PLACED"})
       IN  IF current_open_orders >= config.max_open_orders
           THEN /\ open_orders_to_create' = <<>>
                /\ UNCHANGED <<grid_levels, exchange, since_open_creation>>
           ELSE /\ adjust_and_place_open_order(Head(open_orders_to_create), outcome)
                /\ open_orders_to_create' = Tail(open_orders_to_create)
    /\ UNCHANGED <<config, websocket, controller, trading_rules, last_call, close_orders_to_create, open_order_ids_to_cancel,
                   close_order_ids_to_cancel, status, current_retries,
                   filled_orders, mid_price, venue_fee>>

\* adjust_and_place_close_order: a close order still held in the slot is
\* cancelled and the slot is emptied whatever the cancel returned
OldCloseCleared(levels, l, cancel_outcome) ==
    IF levels[l].active_close_order # None
    THEN [cancel_order(levels, levels[l].active_close_order.order_id,
                       cancel_outcome)
            EXCEPT ![l].active_close_order = None]
    ELSE levels

\* control_task, step 6: one pass of the loop over close_orders_to_create,
\* adjust_and_place_close_order
PlaceCloseOrder(outcome, cancel_outcome) ==
    /\ open_orders_to_create = <<>>
    /\ close_orders_to_create # <<>>
    /\ LET l == Head(close_orders_to_create)
           old == grid_levels[l].active_close_order
           levels == OldCloseCleared(grid_levels, l, cancel_outcome)
           book == Forget(IF old # None /\ Cancelled(old.order_id, cancel_outcome)
                          THEN ExchangeAfterCancel({old.order_id})
                          ELSE exchange, levels)
           c == CloseCandidate(l, levels[l])
           order_result == PlaceResult(book, c, outcome)
           placed == IF order_result # 0
                     THEN [levels EXCEPT
                             ![l].active_close_order =
                                 TrackedOrder(order_result, c.price),
                             ![l].state = "CLOSE_ORDER_PLACED"]
                     ELSE levels
       IN  IF \/ grid_levels[l].active_open_order = None
              \/ ~grid_levels[l].active_open_order.is_filled
           THEN UNCHANGED <<grid_levels, exchange>>
           ELSE IF c.amount < trading_rules.min_order_size
           THEN /\ grid_levels' = levels
                /\ exchange' = book
           ELSE /\ grid_levels' = placed
                /\ exchange' = ExchangeAfterPlace(book, c, outcome)
    /\ close_orders_to_create' = Tail(close_orders_to_create)
    /\ UNCHANGED <<config, websocket, controller, trading_rules, last_call, open_orders_to_create, open_order_ids_to_cancel,
                   close_order_ids_to_cancel, status, current_retries,
                   since_open_creation, filled_orders, mid_price, venue_fee>>

\* control_task, step 7: one pass of the loop over open_order_ids_to_cancel
CancelOpenOrder(outcome) ==
    /\ open_orders_to_create = <<>>
    /\ close_orders_to_create = <<>>
    /\ open_order_ids_to_cancel # <<>>
    /\ LET order_id == Head(open_order_ids_to_cancel)
           levels == cancel_order(grid_levels, order_id, outcome)
       IN  /\ grid_levels' = levels
           /\ exchange' = Forget(IF Cancelled(order_id, outcome)
                                 THEN ExchangeAfterCancel({order_id})
                                 ELSE exchange, levels)
    /\ open_order_ids_to_cancel' = Tail(open_order_ids_to_cancel)
    /\ UNCHANGED <<config, websocket, controller, trading_rules, last_call, open_orders_to_create, close_orders_to_create,
                   close_order_ids_to_cancel, status, current_retries,
                   since_open_creation, filled_orders, mid_price, venue_fee>>

\* control_task, step 8: one pass of the loop over close_order_ids_to_cancel
CancelCloseOrder(outcome) ==
    /\ open_orders_to_create = <<>>
    /\ close_orders_to_create = <<>>
    /\ open_order_ids_to_cancel = <<>>
    /\ close_order_ids_to_cancel # <<>>
    /\ LET order_id == Head(close_order_ids_to_cancel)
           levels == cancel_order(grid_levels, order_id, outcome)
       IN  /\ grid_levels' = levels
           /\ exchange' = Forget(IF Cancelled(order_id, outcome)
                                 THEN ExchangeAfterCancel({order_id})
                                 ELSE exchange, levels)
    /\ close_order_ids_to_cancel' = Tail(close_order_ids_to_cancel)
    /\ UNCHANGED <<config, websocket, controller, trading_rules, last_call, open_orders_to_create, close_orders_to_create,
                   open_order_ids_to_cancel, status, current_retries,
                   since_open_creation, filled_orders, mid_price, venue_fee>>

\* A variant of stop() that runs between two placements of a tick, as it
\* could if a placement gave control to the event loop
StopInsideTick(seen, outcome) ==
    /\ status \in {"RUNNING", "SHUTTING_DOWN"}
    /\ Shutdown(grid_levels, seen, outcome)
    /\ status' = "TERMINATED"
    /\ UNCHANGED <<config, websocket, controller, trading_rules, last_call, tickvars, current_retries, since_open_creation,
                   filled_orders, mid_price, venue_fee>>

\* GridExecutor.stop: SHUTTING_DOWN, cancel_open_orders,
\* close_open_positions, TERMINATED
Stop(seen, outcome) ==
    /\ Idle
    /\ status \in {"RUNNING", "SHUTTING_DOWN"}
    /\ Shutdown(grid_levels, seen, outcome)
    /\ status' = "TERMINATED"
    /\ UNCHANGED <<config, websocket, controller, trading_rules, last_call, tickvars, current_retries, since_open_creation,
                   filled_orders, mid_price, venue_fee>>

----------------------------------------------------------------------------
(* The venue and the clock.  A tick is short: the venue, the market and   *)
(* the clock move between ticks, and what a tick meets is what they did    *)
(* before it; a call of the tick that meets a changed venue is one of the  *)
(* failing outcomes of that call.                                          *)

\* The venue fills q base units of a live order
VenueFill(id, q) ==
    /\ Idle
    /\ status # "TERMINATED"
    /\ exchange[id].status = "open"
    /\ q % trading_rules.min_base_amount_increment = 0
    /\ q <= exchange[id].amount - exchange[id].filled
    /\ exchange' =
          Forget([exchange EXCEPT
                    ![id].filled = @ + q,
                    ![id].status = IF exchange[id].filled + q = exchange[id].amount
                                   THEN "closed" ELSE "open"], grid_levels)
    /\ UNCHANGED <<config, websocket, controller, trading_rules, last_call, grid_levels, tickvars, status, current_retries,
                   since_open_creation, filled_orders, mid_price, venue_fee>>

\* The venue ends a live order without filling it completely
EndStatuses == {"canceled", "rejected"}

VenueEnd(id, st) ==
    /\ Idle
    /\ status # "TERMINATED"
    /\ exchange[id].status = "open"
    /\ exchange' = Forget([exchange EXCEPT ![id].status = st], grid_levels)
    /\ UNCHANGED <<config, websocket, controller, trading_rules, last_call, grid_levels, tickvars, status, current_retries,
                   since_open_creation, filled_orders, mid_price, venue_fee>>

\* The market moves
MoveMid(m) ==
    /\ Idle
    /\ status # "TERMINATED"
    /\ m # mid_price
    /\ mid_price' = m
    /\ UNCHANGED <<config, websocket, controller, trading_rules, last_call, grid_levels, tickvars, status, current_retries,
                   since_open_creation, filled_orders, exchange, venue_fee>>

\* A second passes
AdvanceTime ==
    /\ Idle
    /\ status # "TERMINATED"
    /\ since_open_creation' = Min(since_open_creation + 1, config.order_frequency)
    /\ UNCHANGED <<config, websocket, controller, trading_rules, last_call, grid_levels, tickvars, status, current_retries,
                   filled_orders, mid_price, exchange, venue_fee>>

----------------------------------------------------------------------------

Tracked == TrackedIds(grid_levels) \ {0}

Next ==
    \/ Start
    \/ \E ok \in {Tracked, {}}, raises \in BOOLEAN :
          ControlTaskRunning(ok, raises)
    \/ \E ok \in {Tracked, {}}, seen \in {OpenIds, {}}, outcome \in CancelOutcomes :
          ControlTaskShuttingDown(ok, seen, outcome)
    \/ \E outcome \in PlaceOutcomes : PlaceOpenOrder(outcome)
    \/ \E outcome \in PlaceOutcomes, cancel_outcome \in CancelOutcomes :
          PlaceCloseOrder(outcome, cancel_outcome)
    \/ \E outcome \in CancelOutcomes : CancelOpenOrder(outcome)
    \/ \E outcome \in CancelOutcomes : CancelCloseOrder(outcome)
    \/ \E seen \in {OpenIds, {}}, outcome \in CancelOutcomes :
          Stop(seen, outcome)
    \/ \E id \in OrderSlots, q \in 1 .. MaxFill : VenueFill(id, q)
    \/ \E id \in OrderSlots, st \in EndStatuses : VenueEnd(id, st)
    \/ \E m \in Mids : MoveMid(m)
    \/ AdvanceTime

Spec == Init /\ [][Next]_vars

\* Grids whose cap is smaller than the ladder
CapConfigs ==
    {Config("BUY", ab, 0, MaxOpenOrders - 1, AmountQuote) :
        ab \in {<<>>, <<ActivationBounds>>}}

SpecCap == InitWith(CapConfigs, {0}, Rules) /\ [][Next]_vars

\* A grid whose activation_bounds is Decimal("0"), next to one with a bound
ZeroBoundsConfigs ==
    {Config("BUY", ab, 0, MaxOpenOrders, AmountQuote) :
        ab \in {<<0>>, <<ActivationBounds>>}}

SpecZeroBounds == InitWith(ZeroBoundsConfigs, {0}, Rules) /\ [][Next]_vars

\* A grid with a cooldown between open orders
CooldownConfigs ==
    {Config("BUY", <<ActivationBounds>>, OrderFrequency, MaxOpenOrders, AmountQuote)}

SpecCooldown == InitWith(CooldownConfigs, {0}, Rules) /\ [][Next]_vars

\* A grid of larger orders at a venue that charges fees
FeeConfigs ==
    {Config("BUY", <<ActivationBounds>>, 0, MaxOpenOrders, 2 * AmountQuote)}

SpecFees == InitWith(FeeConfigs, {1}, Rules) /\ [][Next]_vars

\* An executor that bears one failed tick: max_retries is one above the
\* smallest
RetryConfigs ==
    {[c EXCEPT !.max_retries = MaxRetries + 1] : c \in CooldownConfigs}

SpecRetries == InitWith(RetryConfigs, {0}, Rules) /\ [][Next]_vars

\* A grid of small orders at venues with and without fees, and the grid of
\* larger orders at a venue that charges fees
SmallConfigs ==
    {Config("BUY", <<ActivationBounds>>, 0, MaxOpenOrders, AmountQuote)}

InitCloseAmount ==
    \/ InitWith(SmallConfigs, {0, 1}, Rules)
    \/ InitWith(FeeConfigs, {1}, Rules)

SpecCloseAmount == InitCloseAmount /\ [][Next]_vars

\* A long grid without activation bounds that stays RUNNING at a venue that
\* answers every query and accepts every order it is sent, with and without
\* fees: no tick raises, nobody calls stop(), no order is ended by the venue
AcceptingConfigs == {Config("BUY", <<>>, 0, MaxOpenOrders, AmountQuote)}

NextAccepting ==
    \/ Start
    \/ ControlTaskRunning(Tracked, FALSE)
    \/ PlaceOpenOrder("ok")
    \/ PlaceCloseOrder("ok", "ok")
    \/ \E id \in OrderSlots, q \in 1 .. MaxFill : VenueFill(id, q)
    \/ \E m \in Mids : MoveMid(m)

SpecAccepting == InitWith(AcceptingConfigs, {0, 1}, Rules) /\ [][NextAccepting]_vars

\* start() is run, the loop task ticks every second, and a tick works off
\* every placement it decided on
FairAccepting ==
    /\ WF_vars(Start)
    /\ WF_vars(ControlTaskRunning(Tracked, FALSE))
    /\ WF_vars(PlaceOpenOrder("ok"))
    /\ WF_vars(PlaceCloseOrder("ok", "ok"))

FairSpecAccepting == SpecAccepting /\ FairAccepting

\* Grids whose cap is smaller than the ladder, and a grid without bounds
\* whose cap admits every level
ProximityConfigs ==
    CapConfigs \cup {Config("BUY", <<>>, 0, MaxOpenOrders, AmountQuote)}

SpecProximity == InitWith(ProximityConfigs, {0}, Rules) /\ [][Next]_vars

\* A pair whose price increment is wider than the distance between the
\* mid-prices and the prices around them: the mid-price (bid + ask) / 2 is
\* no multiple of the increment
CoarsePriceIncrement == 4 * MinPriceIncrement

CoarseRules ==
    {TradingRule(CoarsePriceIncrement, MinBaseAmountIncrement, MinOrderSize,
                 MinNotional)}

SpecCoarse == InitWith(Configs, {0}, CoarseRules) /\ [][Next]_vars

\* The rules of a pair with lots: the price tick is CoarsePriceIncrement,
\* amounts go in steps of LotAmountIncrement from LotMinOrderSize on, and
\* an order is worth at least MinNotional or LotMinNotional
LotAmountIncrement == 2 * MinBaseAmountIncrement
LotMinOrderSize == 2 * MinOrderSize
LotMinNotional == 40 * MinNotional

LotRules ==
    {TradingRule(CoarsePriceIncrement, LotAmountIncrement, LotMinOrderSize, n) :
        n \in {MinNotional, LotMinNotional}}

SpecLot == InitWith(Configs, {0}, LotRules) /\ [][Next]_vars

----------------------------------------------------------------------------
(* TrackedOrder.update_from_exchange_data, called on its own *)

\* Status strings as the REST library spells them, as the venue's events
\* spell them, and in mixed case
StatusStrings ==
    {"open", "closed", "canceled", "expired", "rejected", "unknown",
     "NEW", "PARTIALLY_FILLED", "FILLED", "CANCELED", "EXPIRED", "REJECTED",
     "Filled", "new"}

\* The order updates of at most MaxFill executed base units at price p
OrderUpdates(p) ==
    {[status |-> s, filled |-> q, cost |-> q * p, has_fee |-> f, fee |-> q] :
        s \in StatusStrings, q \in 0 .. MaxFill, f \in BOOLEAN}
    \cup {[X |-> s, z |-> q, Z |-> q * p] :
        s \in StatusStrings, q \in 0 .. MaxFill}

\* tracked_order.update_from_exchange_data(order_data) on an order that is
\* fresh or has been updated before
CallUpdateFromExchangeData(t, order_data) ==
    /\ last_call' = [op |-> "update_from_exchange_data",
                     order_data |-> order_data,
                     order |-> update_from_exchange_data(t, order_data)]
    /\ UNCHANGED <<config, websocket, controller, trading_rules, grid_levels, tickvars, status,
                   current_retries, since_open_creation, filled_orders,
                   mid_price, exchange, venue_fee>>

NextOrderUpdate ==
    \E p \in {StartPrice, EndPrice} :
        \E order_data \in OrderUpdates(p) :
            \/ CallUpdateFromExchangeData(TrackedOrder(1, p), order_data)
            \/ /\ last_call.op = "update_from_exchange_data"
               /\ CallUpdateFromExchangeData(last_call.order, order_data)

SpecOrderUpdate == InitWith(FeeConfigs, {1}, Rules) /\ [][NextOrderUpdate]_vars

----------------------------------------------------------------------------
(* GridExecutor._generate_grid_levels, called on its own.                  *)
(*                                                                         *)
(* A float is a fraction <<numerator, denominator>> whose value has a      *)
(* mantissa of MantissaBits bits; every float operation rounds its exact   *)
(* result to the nearest such value, ties to the even mantissa.            *)

RECURSIVE RoundToFloat(_, _)
RoundToFloat(num, den) ==
    IF num = 0 THEN <<0, 1>>
    ELSE IF num >= den * 2^MantissaBits
    THEN LET r == RoundToFloat(num, 2 * den) IN <<2 * r[1], r[2]>>
    ELSE IF num < den * 2^(MantissaBits - 1)
    THEN LET r == RoundToFloat(2 * num, den) IN <<r[1], 2 * r[2]>>
    ELSE LET m == num \div den
             twice_rest == 2 * (num - m * den)
         IN  <<IF twice_rest > den \/ (twice_rest = den /\ m % 2 = 1)
               THEN m + 1 ELSE m, 1>>

FloatAdd(a, b) == RoundToFloat(a[1] * b[2] + b[1] * a[2], a[2] * b[2])

FloatSub(a, b) == RoundToFloat(a[1] * b[2] - b[1] * a[2], a[2] * b[2])

FloatMul(a, b) == RoundToFloat(a[1] * b[1], a[2] * b[2])

FloatDiv(a, b) == RoundToFloat(a[1] * b[2], a[2] * b[1])

SameValue(a, b) == a[1] * b[2] = b[1] * a[2]

Less(a, b) == a[1] * b[2] < b[1] * a[2]

\* _linear_distribution(n, start, end) on floats start < end
linear_distribution(n, start, end) ==
    IF n = 1 THEN <<FloatDiv(FloatAdd(start, end), <<2, 1>>)>>
    ELSE LET step == FloatDiv(FloatSub(end, start), <<n - 1, 1>>) IN
         [i \in 1 .. n |-> FloatAdd(start, FloatMul(<<i - 1, 1>>, step))]

\* The fields of GridExecutorConfig that _generate_grid_levels reads
\* (min_spread_between_orders in 1/Den)
LadderConfig(start_price, end_price, total_amount_quote) ==
    [start_price |-> start_price, end_price |-> end_price,
     total_amount_quote |-> total_amount_quote,
     min_order_amount_quote |-> MinOrderAmountQuote,
     min_spread_between_orders |-> MinSpreadBetweenOrders]

\* The ladder: its levels, with the float price str() prints and Decimal()
\* reads back, and the amount of each
Ladder(n_levels, quote_amount_per_level, prices) ==
    [raised |-> FALSE,
     levels |-> [i \in 1 .. n_levels |->
                   [price |-> prices[i],
                    amount_quote |-> quote_amount_per_level]]]

\* _generate_grid_levels for the mid-price price; the amounts are computed
\* exactly.  raised: the call ends in an exception.
generate_grid_levels(cfg, price, rules) ==
    LET min_notional == Max(cfg.min_order_amount_quote, rules.min_notional_size)
        min_base_increment == rules.min_base_amount_increment
        \* max(min_notional * 1.05 / price, increment * ceil(...)), rounded
        \* up to a multiple of the increment
        min_base_amount ==
            min_base_increment
              * Max(CeilDiv(105 * min_notional, 100 * price * min_base_increment),
                    CeilDiv(min_notional, min_base_increment * price))
        min_quote_amount == min_base_amount * price
        range == cfg.end_price - cfg.start_price
        \* int(grid_range / max(min_spread_between_orders,
        \*                     min_price_increment / price))
        max_levels_by_step ==
            Min((range * Den) \div (cfg.start_price * cfg.min_spread_between_orders),
                (range * price) \div (cfg.start_price * rules.min_price_increment))
        max_possible_levels == cfg.total_amount_quote \div min_quote_amount
        n_first == Min(max_possible_levels, max_levels_by_step)
        base_amount_per_level ==
            Max(min_base_amount,
                min_base_increment
                  * (cfg.total_amount_quote
                       \div (price * n_first * min_base_increment)))
        quote_amount_per_level == base_amount_per_level * price
        n_levels ==
            Max(1, Min(n_first, cfg.total_amount_quote \div quote_amount_per_level))
        start == RoundToFloat(cfg.start_price, 1)
        end == RoundToFloat(cfg.end_price, 1)
        \* one level: the Decimal (start_price + end_price) / 2
        single == << <<cfg.start_price + cfg.end_price, 2>> >>
    IN  IF price <= 0 THEN [raised |-> TRUE]
        ELSE IF max_possible_levels = 0
        THEN Ladder(1, min_quote_amount, single)
        ELSE IF n_first = 0
        THEN [raised |-> TRUE]     \* total_amount_quote / (price * 0)
        ELSE Ladder(n_levels, quote_amount_per_level,
                    IF n_levels > 1
                    THEN linear_distribution(n_levels, start, end)
                    ELSE single)

\* The configurations and mid-prices the ladder is built for
LadderStartPrices == {1, 2, 9, 14}
LadderEndPrices == {10, 13, 14, 15}
LadderTotals == {3, 10, 20, 30, 40}
LadderMids == {5, 10}

LadderConfigs ==
    {LadderConfig(s, e, t) :
        s \in LadderStartPrices, e \in LadderEndPrices, t \in LadderTotals}

CallGenerateGridLevels(cfg, price) ==
    /\ cfg.start_price < cfg.end_price
    /\ last_call' = [op |-> "_generate_grid_levels", config |-> cfg,
                     price |-> price,
                     result |-> generate_grid_levels(cfg, price, trading_rules)]
    /\ UNCHANGED <<config, websocket, controller, trading_rules, grid_levels, tickvars, status,
                   current_retries, since_open_creation, filled_orders,
                   mid_price, exchange, venue_fee>>

NextLadder ==
    \E cfg \in LadderConfigs, price \in LadderMids :
        CallGenerateGridLevels(cfg, price)

SpecLadder == InitWith(FeeConfigs, {1}, Rules) /\ [][NextLadder]_vars

----------------------------------------------------------------------------
(* config.validate_config, called on its own *)

\* GRID_CONFIG: the entries that describe the grid
GridConfig(start_price, end_price, total_amount_quote, max_open_orders, take_profit_pct) ==
    [start_price |-> start_price, end_price |-> end_price,
     total_amount_quote |-> total_amount_quote,
     max_open_orders |-> max_open_orders,
     take_profit_pct |-> take_profit_pct]

\* GRID_CONFIG with entries that are zero and positive, and a
\* take_profit_pct that is negative, zero and positive
GridConfigs ==
    {GridConfig(s, e, t, m, p) :
        s \in {StartPrice, EndPrice}, e \in {StartPrice, EndPrice},
        t \in {0, AmountQuote}, m \in {0, MaxOpenOrders},
        p \in {-TakeProfitPct, 0, TakeProfitPct}}

\* ACCOUNT_A_CONFIG and ACCOUNT_B_CONFIG: whether the key and the secret
\* read from the environment are non-empty
Credentials ==
    [Accounts -> [api_key : BOOLEAN, api_secret : BOOLEAN]]

\* validate_config: TRUE when it returns True, FALSE when it raises
\* ValueError
validate_config(credentials, grid_config) ==
    IF ~credentials["A"].api_key \/ ~credentials["A"].api_secret THEN FALSE
    ELSE IF ~credentials["B"].api_key \/ ~credentials["B"].api_secret THEN FALSE
    ELSE IF grid_config.start_price >= grid_config.end_price THEN FALSE
    ELSE IF grid_config.total_amount_quote <= 0 THEN FALSE
    ELSE IF grid_config.max_open_orders <= 0 THEN FALSE
    ELSE TRUE

CallValidateConfig(credentials, grid_config) ==
    /\ last_call' = [op |-> "validate_config", credentials |-> credentials,
                     config |-> grid_config,
                     accepted |-> validate_config(credentials, grid_config)]
    /\ UNCHANGED <<config, websocket, controller, trading_rules, grid_levels, tickvars, status,
                   current_retries, since_open_creation, filled_orders,
                   mid_price, exchange, venue_fee>>

NextValidate ==
    \E credentials \in Credentials, grid_config \in GridConfigs :
        CallValidateConfig(credentials, grid_config)

SpecValidate == InitWith(FeeConfigs, {1}, Rules) /\ [][NextValidate]_vars

----------------------------------------------------------------------------
(* binance_connector.py: the websocket loop of a connector.                *)
(*                                                                         *)
(* A coroutine that is awaited and returns without suspending does not     *)
(* give control to the event loop, so a pass of the loop that ends without *)
(* a suspension is followed by the next pass before any other task runs.   *)
(***************************************************************************)

RECURSIVE PowerOfTwo(_)
PowerOfTwo(n) == IF n = 0 THEN 1 ELSE 2 * PowerOfTwo(n - 1)

\* _websocket_loop: the delay computed in the except branch
reconnect_delay(reconnect_attempts) ==
    Min(ReconnectDelay * PowerOfTwo(reconnect_attempts), MaxReconnectDelay)

WebsocketFrame ==
    UNCHANGED <<config, controller, trading_rules, grid_levels, tickvars, status,
                current_retries, since_open_creation, filled_orders,
                mid_price, exchange, venue_fee, last_call>>

\* start_websocket
start_websocket ==
    /\ ~websocket.websocket_running
    /\ websocket.task = "none"
    /\ websocket' = [websocket EXCEPT !.websocket_running = TRUE,
                                      !.task = "ready"]
    /\ WebsocketFrame

\* _websocket_loop: the except branch, entered with the connector as ws
WebsocketExcept(ws) ==
    IF ~ws.websocket_running
    THEN [ws EXCEPT !.connection_healthy = FALSE, !.task = "done"]
    ELSE IF ws.reconnect_attempts >= MaxReconnectAttempts
    THEN [ws EXCEPT !.connection_healthy = FALSE,
                    !.websocket_running = FALSE, !.task = "done"]
    ELSE [ws EXCEPT !.connection_healthy = FALSE,
                    !.delay = reconnect_delay(ws.reconnect_attempts),
                    !.reconnect_attempts = @ + 1,
                    !.task = "sleeping"]

\* _websocket_loop: the while test and the call of _connect_websocket, up to
\* its return (no listen key) or its first suspension (websockets.connect)
WebsocketLoopPass ==
    /\ websocket.task \in {"ready", "spinning"}
    /\ websocket' =
          IF ~websocket.websocket_running
          THEN [websocket EXCEPT !.task = "done"]
          ELSE IF websocket.listenKey = NoListenKey
          THEN [websocket EXCEPT !.reconnect_attempts = 0,
                                 !.connection_healthy = TRUE,
                                 !.task = "spinning"]
          ELSE [websocket EXCEPT !.task = "connecting"]
    /\ WebsocketFrame

\* _connect_websocket: websockets.connect and the subscriptions succeed, or
\* raise into the except branch of the loop
WebsocketConnect(established) ==
    /\ websocket.task = "connecting"
    /\ websocket' = IF established
                    THEN [websocket EXCEPT !.task = "connected"]
                    ELSE WebsocketExcept(websocket)
    /\ WebsocketFrame

\* _connect_websocket: the message loop raises (no message for 60 seconds, a
\* failed ping, a closed connection, a message that cannot be handled)
WebsocketDropped ==
    /\ websocket.task = "connected"
    /\ websocket' = WebsocketExcept(websocket)
    /\ WebsocketFrame

\* _websocket_loop: asyncio.sleep(delay) returns
WebsocketWake ==
    /\ websocket.task = "sleeping"
    /\ websocket' = [websocket EXCEPT !.task = "ready"]
    /\ WebsocketFrame

\* stop_websocket, called by another task while the loop is suspended: the
\* task is cancelled where it waits
stop_websocket ==
    /\ websocket.task \in {"ready", "connecting", "connected", "sleeping"}
    /\ websocket' = [websocket EXCEPT !.websocket_running = FALSE,
                                      !.task = "done"]
    /\ WebsocketFrame

NextWebsocket ==
    \/ start_websocket
    \/ WebsocketLoopPass
    \/ \E established \in BOOLEAN : WebsocketConnect(established)
    \/ WebsocketDropped
    \/ WebsocketWake
    \/ stop_websocket

\* The loop of a connector whose listenKey attribute is None, as __init__
\* leaves it, or holds a key
InitWebsocket ==
    /\ InitExecutor(FeeConfigs, {1}, Rules)
    /\ websocket \in {[NewWebsocket EXCEPT !.listenKey = k] : k \in ListenKeys}

SpecWebsocket == InitWebsocket /\ [][NextWebsocket]_vars

----------------------------------------------------------------------------
(* strategy_controller.py: StrategyController and its two executors.       *)
(*                                                                         *)
(* The controller sees an executor by its status and its retry counter.    *)
(* A task is "none" before create_task, "pending" while the event loop can *)
(* run it, "cancelling" once cancel() has reached it where it is           *)
(* suspended, and "done" or "cancelled" at its end.  start() and stop()    *)
(* are followed step by step; the loop may run any pending task between    *)
(* two steps.  stop() is called by start() on a failure and by the monitor *)
(* loop.                                                                   *)

\* task.done()
TaskDone(task) == task \in {"done", "cancelled"}

\* GridExecutor.is_active
is_active(executor_status) ==
    executor_status \in {"RUNNING", "NOT_STARTED", "SHUTTING_DOWN"}

\* GridExecutor.is_healthy, the connector being reachable
is_healthy(ctl, e) ==
    /\ ctl.executors[e] \in {"RUNNING", "NOT_STARTED"}
    /\ ctl.retries[e] < MaxRetries

\* A variant of the first step of stop() in which the task that cancels and
\* awaits itself ends there
stop_ending_caller(ctl, caller) ==
    [ctl EXCEPT !.is_running = FALSE,
                !.stop = [NoStop EXCEPT !.caller = caller, !.pc = "ended"],
                !.monitor_task = IF caller = "monitor" THEN "cancelled" ELSE @]

\* stop() up to the await of the monitor task.  A task that cancels itself
\* only sets its own cancel request and goes on; the await of itself is
\* answered on the next turn of the loop with the CancelledError of that
\* request, which stop() catches.
stop(ctl, caller) ==
    [ctl EXCEPT
        !.is_running = FALSE,
        !.stop = [NoStop EXCEPT
                    !.caller = caller,
                    !.pc = IF TaskDone(ctl.monitor_task) \/ ctl.monitor_task = "none"
                           THEN "cancel_tasks" ELSE "await_monitor"],
        !.monitor_task = IF @ = "pending" /\ caller # "monitor"
                         THEN "cancelling" ELSE @]

\* start(): the step failed; the except branch awaits stop()
Failed(ctl, step) ==
    stop([ctl EXCEPT !.start_pc = "stopping", !.failed_step = step], "start")

\* start(): the step is entered
Entered(ctl, step) == [ctl EXCEPT !.steps_run = @ \cup {step}]

\* start(): the step after step
Proceed(ctl, step) == [ctl EXCEPT !.start_pc = StartSteps[StepIndex(step) + 1]]

execvars == <<config, grid_levels, open_orders_to_create, close_orders_to_create,
              open_order_ids_to_cancel, close_order_ids_to_cancel, status,
              current_retries, since_open_creation, filled_orders, mid_price,
              exchange, venue_fee, trading_rules, last_call, websocket>>

\* start() is called
StartCalled ==
    /\ controller.start_pc = "not_called"
    /\ controller' = [controller EXCEPT !.start_pc = StartSteps[1]]
    /\ UNCHANGED execvars

\* initialize_connectors: is both connectors' is_connected() true
connectors_verified(connected) == connected = Accounts

\* initialize_connectors: built are the connectors whose constructor
\* returned, up to the first that raised; reachable those whose
\* is_connected() returns True
InitializeConnectors(built, reachable) ==
    /\ controller.start_pc = "initialize_connectors"
    /\ LET ctl == [Entered(controller, "initialize_connectors")
                     EXCEPT !.connectors = built,
                            !.connected =
                                IF built # Accounts \/ "A" \notin reachable
                                THEN {} ELSE reachable]
       IN  controller' =
              IF built = Accounts /\ connectors_verified(ctl.connected)
              THEN Proceed(ctl, "initialize_connectors")
              ELSE Failed(ctl, "initialize_connectors")
    /\ UNCHANGED execvars

\* A variant of cleanup_succeeded that is content with one account
cleanup_of_one_succeeded(cleaned) == cleaned # {}

\* cleanup_accounts: success_a and success_b
cleanup_succeeded(cleaned) == cleaned = Accounts

\* cleanup_accounts: succeeded are the accounts whose connector.cleanup()
\* (cancel all, close all, verify_cleanup) returned True
CleanupAccounts(succeeded) ==
    /\ controller.start_pc = "cleanup_accounts"
    /\ LET ctl == [Entered(controller, "cleanup_accounts")
                     EXCEPT !.cleaned = succeeded]
       IN  controller' =
              IF cleanup_succeeded(succeeded)
              THEN Proceed(ctl, "cleanup_accounts")
              ELSE Failed(ctl, "cleanup_accounts")
    /\ UNCHANGED execvars

\* balance_funds: the balances are read and logged; no transfer is made
BalanceFunds ==
    /\ controller.start_pc = "balance_funds"
    /\ controller' = Proceed(Entered(controller, "balance_funds"), "balance_funds")
    /\ UNCHANGED execvars

\* initialize_executors: created are the executors whose constructor
\* returned, up to the first that raised
InitializeExecutors(created) ==
    /\ controller.start_pc = "initialize_executors"
    /\ LET ctl == [Entered(controller, "initialize_executors")
                     EXCEPT !.executors =
                               [e \in Executors |->
                                  IF e \in created THEN "NOT_STARTED" ELSE "none"]]
       IN  controller' =
              IF created = Executors
              THEN Proceed(ctl, "initialize_executors")
              ELSE Failed(ctl, "initialize_executors")
    /\ UNCHANGED execvars

\* validate_dual_account_balance: min(nominal_value_a, nominal_value_b) is
\* not below the required amount
balance_sufficient(free) ==
    Min(free["A"] * Leverage, free["B"] * Leverage) >= AmountQuote

\* validate_dual_account_balance with the free balances free
ValidateDualAccountBalance(free) ==
    /\ controller.start_pc = "validate_dual_account_balance"
    /\ LET ctl == [Entered(controller, "validate_dual_account_balance")
                     EXCEPT !.available = free]
       IN  controller' =
              IF balance_sufficient(free)
              THEN Proceed(ctl, "validate_dual_account_balance")
              ELSE Failed(ctl, "validate_dual_account_balance")
    /\ UNCHANGED execvars

\* start_executors up to the await of gather: both executors' start() set
\* RUNNING and create the task of _main_control_loop
StartExecutors ==
    /\ controller.start_pc = "start_executors"
    /\ controller' =
          [Entered(controller, "start_executors")
             EXCEPT !.executors = [e \in Executors |-> "RUNNING"],
                    !.control_task_handle = [e \in Executors |-> "pending"],
                    !.start_pc = "await_start_executors"]
    /\ UNCHANGED execvars

\* start_executors after gather, start_monitoring and the end of start():
\* the tasks of _run_executor_loop and of _monitor_loop are created and
\* is_running is set, with no suspension in between
StartMonitoring ==
    /\ controller.start_pc = "await_start_executors"
    /\ controller' =
          [Entered(controller, "start_monitoring")
             EXCEPT !.executor_tasks = [e \in Executors |-> "pending"],
                    !.monitor_task = "pending",
                    !.is_running = TRUE,
                    !.start_pc = "returned"]
    /\ UNCHANGED execvars

\* start(): stop() has returned, the error is raised again
StartRaises ==
    /\ controller.start_pc = "stopping"
    /\ controller.stop.caller = "start"
    /\ controller.stop.pc = "done"
    /\ controller' = [controller EXCEPT !.start_pc = "raised"]
    /\ UNCHANGED execvars

\* control_task as the controller sees it: a RUNNING tick that raises counts
\* a retry and shuts the executor down at max_retries; a SHUTTING_DOWN tick
\* ends in TERMINATED
control_task(ctl, e, raises) ==
    IF ctl.executors[e] = "SHUTTING_DOWN"
    THEN [ctl EXCEPT !.executors[e] = "TERMINATED"]
    ELSE IF raises
    THEN [ctl EXCEPT !.retries[e] = Min(@ + 1, MaxRetries),
                     !.executors[e] = IF ctl.retries[e] + 1 >= MaxRetries
                                      THEN "SHUTTING_DOWN" ELSE @]
    ELSE ctl

\* GridExecutor._main_control_loop: one pass of the task start() created
MainControlLoop(e, raises) ==
    /\ controller.control_task_handle[e] = "pending"
    /\ controller' =
          IF controller.executors[e] = "RUNNING"
          THEN control_task(controller, e, raises)
          ELSE [controller EXCEPT !.control_task_handle[e] = "done"]
    /\ UNCHANGED execvars

\* _run_executor_loop: the loop condition
RunsControlTask(ctl, e) == is_active(ctl.executors[e]) /\ ctl.is_running

\* _run_executor_loop: one pass of the controller's task for the executor
RunExecutorLoop(e, raises) ==
    /\ controller.executor_tasks[e] = "pending"
    /\ controller' =
          IF RunsControlTask(controller, e)
          THEN control_task(controller, e, raises)
          ELSE [controller EXCEPT !.executor_tasks[e] = "done"]
    /\ UNCHANGED execvars

\* A task that was cancelled where it was suspended ends
TaskCancelled(e) ==
    /\ \/ /\ controller.executor_tasks[e] = "cancelling"
          /\ controller' = [controller EXCEPT !.executor_tasks[e] = "cancelled"]
       \/ /\ controller.control_task_handle[e] = "cancelling"
          /\ controller' = [controller EXCEPT !.control_task_handle[e] = "cancelled"]
    /\ UNCHANGED execvars

\* _check_executor_health: does it call stop()
HealthCallsForStop(ctl) ==
    \/ \E e \in Executors : ctl.executors[e] = "SHUTTING_DOWN"
    \/ \E e \in Executors : TaskDone(ctl.executor_tasks[e])

\* _heartbeat_check: does it call stop(); lost tells whether a connector's
\* is_connected() returns False
HeartbeatCallsForStop(ctl, lost) ==
    \/ lost
    \/ \E e \in Executors : ~is_healthy(ctl, e)

\* _monitor_loop: one pass.  due tells whether the heartbeat check is due.
MonitorLoop(due, lost) ==
    /\ controller.monitor_task = "pending"
    /\ controller.monitor_pc = "loop"
    /\ controller' =
          IF ~controller.is_running
          THEN [controller EXCEPT !.monitor_task = "done"]
          ELSE IF due /\ HeartbeatCallsForStop(controller, lost)
          THEN stop([controller EXCEPT !.monitor_pc = "heartbeat"], "monitor")
          ELSE IF HealthCallsForStop(controller)
          THEN stop([controller EXCEPT !.monitor_pc = "health"], "monitor")
          ELSE controller
    /\ UNCHANGED execvars

\* _monitor_loop: stop() has returned to the check that called it; after
\* the heartbeat check the pass goes on with _check_executor_health
MonitorResumes ==
    /\ controller.monitor_task = "pending"
    /\ controller.monitor_pc # "loop"
    /\ controller.stop.caller = "monitor"
    /\ controller.stop.pc = "done"
    /\ controller' =
          IF controller.monitor_pc = "heartbeat" /\ HealthCallsForStop(controller)
          THEN stop([controller EXCEPT !.monitor_pc = "health"], "monitor")
          ELSE [controller EXCEPT !.monitor_pc = "loop"]
    /\ UNCHANGED execvars

\* stop(), step 1: the await of the monitor task returns
StopAwaitsMonitor ==
    /\ controller.stop.pc = "await_monitor"
    /\ controller.stop.caller = "monitor" \/ TaskDone(controller.monitor_task)
    /\ controller' = [controller EXCEPT !.stop.pc = "cancel_tasks"]
    /\ UNCHANGED execvars

\* stop(), step 2: the tasks of executor_tasks in the order of the dict
TaskOrder == <<"long", "short">>

\* stop(), step 2: the next task that is not done is cancelled and awaited;
\* with none left stop() goes on to stop_executors
StopCancelsTask ==
    /\ controller.stop.pc = "cancel_tasks"
    /\ LET left == {i \in 1 .. Len(TaskOrder) :
                       controller.executor_tasks[TaskOrder[i]] = "pending"}
           e == TaskOrder[CHOOSE i \in left : \A k \in left : i <= k]
       IN  controller' =
              IF left = {}
              THEN [controller EXCEPT !.stop.pc = "stop_executors"]
              ELSE [controller EXCEPT !.executor_tasks[e] = "cancelling",
                                      !.stop.awaited = e,
                                      !.stop.pc = "await_task"]
    /\ UNCHANGED execvars

\* stop(), step 2: the await of the cancelled task returns
StopAwaitsTask ==
    /\ controller.stop.pc = "await_task"
    /\ TaskDone(controller.executor_tasks[controller.stop.awaited])
    /\ controller' = [controller EXCEPT !.stop.pc = "cancel_tasks",
                                        !.stop.awaited = "none"]
    /\ UNCHANGED execvars

\* stop_executors: gather schedules stop() of every executor there is
StopExecutors ==
    /\ controller.stop.pc = "stop_executors"
    /\ controller' =
          [controller EXCEPT
              !.stop.shutdown =
                  [e \in Executors |->
                     IF controller.executors[e] = "none" THEN "none"
                     ELSE "scheduled"],
              !.stop.pc = "await_stop_executors"]
    /\ UNCHANGED execvars

\* GridExecutor.stop after the control task is out of the way:
\* cancel_open_orders and close_open_positions, which log a failure of the
\* venue and go on, then TERMINATED
executor_shutdown(ctl, e, success) ==
    [ctl EXCEPT !.executors[e] = "TERMINATED",
                !.stop.shutdown[e] = IF success THEN "ok" ELSE "failed"]

\* GridExecutor.stop up to the await of control_task_handle, and to its end
\* if that task is done or was never created
ExecutorStop(e, success) ==
    /\ controller.stop.shutdown[e] = "scheduled"
    /\ controller' =
          IF controller.control_task_handle[e] = "pending"
          THEN [controller EXCEPT !.executors[e] = "SHUTTING_DOWN",
                                  !.control_task_handle[e] = "cancelling",
                                  !.stop.shutdown[e] = "await_handle"]
          ELSE executor_shutdown(controller, e, success)
    /\ UNCHANGED execvars

\* GridExecutor.stop: the await of control_task_handle returns
ExecutorStopGoesOn(e, success) ==
    /\ controller.stop.shutdown[e] = "await_handle"
    /\ TaskDone(controller.control_task_handle[e])
    /\ controller' = executor_shutdown(controller, e, success)
    /\ UNCHANGED execvars

\* A variant of ShutdownsFinished that waits for the first shutdown only
OneShutdownFinished(ctl) ==
    \E e \in Executors : ctl.stop.shutdown[e] \in {"ok", "failed"}

\* stop_executors: gather has the results of all the executors' stop()
ShutdownsFinished(ctl) ==
    \A e \in Executors : ctl.stop.shutdown[e] \in {"none", "ok", "failed"}

\* stop_executors returns; final_cleanup hands cleanup() of every connector
\* there is to a thread
FinalCleanup ==
    /\ controller.stop.pc = "await_stop_executors"
    /\ ShutdownsFinished(controller)
    /\ controller' =
          [controller EXCEPT
              !.stop.cleanup =
                  [a \in Accounts |->
                     IF a \in controller.connectors THEN "running" ELSE "none"],
              !.stop.pc = "await_cleanup"]
    /\ UNCHANGED execvars

\* connector.cleanup() of final_cleanup returns in its thread
ConnectorCleanup(a, success) ==
    /\ controller.stop.cleanup[a] = "running"
    /\ controller' =
          [controller EXCEPT
              !.stop.cleanup[a] = IF success THEN "ok" ELSE "failed"]
    /\ UNCHANGED execvars

\* final_cleanup: gather has the results of all cleanups
CleanupsFinished(ctl) ==
    \A a \in Accounts : ctl.stop.cleanup[a] \in {"none", "ok", "failed"}

\* final_cleanup returns; verify_final_cleanup asks every connector whether
\* the account is flat, and stop() returns
VerifyFinalCleanup(flat) ==
    /\ controller.stop.pc = "await_cleanup"
    /\ CleanupsFinished(controller)
    /\ controller' =
          [controller EXCEPT
              !.stop.verified = IF flat THEN "passed" ELSE "failed",
              !.stop.pc = "done"]
    /\ UNCHANGED execvars

NextController ==
    \/ StartCalled
    \/ \E built \in {{}, {"A"}, Accounts}, reachable \in SUBSET Accounts :
          InitializeConnectors(built, reachable)
    \/ \E succeeded \in SUBSET Accounts : CleanupAccounts(succeeded)
    \/ BalanceFunds
    \/ \E created \in {{}, {"long"}, Executors} : InitializeExecutors(created)
    \/ \E free \in [Accounts -> Balances] : ValidateDualAccountBalance(free)
    \/ StartExecutors
    \/ StartMonitoring
    \/ StartRaises
    \/ \E e \in Executors, raises \in BOOLEAN : MainControlLoop(e, raises)
    \/ \E e \in Executors, raises \in BOOLEAN : RunExecutorLoop(e, raises)
    \/ \E e \in Executors : TaskCancelled(e)
    \/ \E due \in BOOLEAN, lost \in BOOLEAN : MonitorLoop(due, lost)
    \/ MonitorResumes
    \/ StopAwaitsMonitor
    \/ StopCancelsTask
    \/ StopAwaitsTask
    \/ StopExecutors
    \/ \E e \in Executors, success \in BOOLEAN : ExecutorStop(e, success)
    \/ \E e \in Executors, success \in BOOLEAN : ExecutorStopGoesOn(e, success)
    \/ FinalCleanup
    \/ \E a \in Accounts, success \in BOOLEAN : ConnectorCleanup(a, success)
    \/ \E flat \in BOOLEAN : VerifyFinalCleanup(flat)

SpecController == InitWith(FeeConfigs, {1}, Rules) /\ [][NextController]_vars

\* The event loop runs every task that is ready, and a thread that was
\* handed a cleanup returns: no step of the monitor loop, of an executor's
\* loop, of stop() or of a cancelled task is put off forever
FairController ==
    /\ WF_vars(\E due \in BOOLEAN, lost \in BOOLEAN : MonitorLoop(due, lost))
    /\ WF_vars(MonitorResumes)
    /\ WF_vars(\E e \in Executors, raises \in BOOLEAN : MainControlLoop(e, raises))
    /\ WF_vars(\E e \in Executors, raises \in BOOLEAN : RunExecutorLoop(e, raises))
    /\ WF_vars(\E e \in Executors : TaskCancelled(e))
    /\ WF_vars(StartRaises)
    /\ WF_vars(StopAwaitsMonitor)
    /\ WF_vars(StopCancelsTask)
    /\ WF_vars(StopAwaitsTask)
    /\ WF_vars(StopExecutors)
    /\ WF_vars(\E e \in Executors, success \in BOOLEAN : ExecutorStop(e, success))
    /\ WF_vars(\E e \in Executors, success \in BOOLEAN : ExecutorStopGoesOn(e, success))
    /\ WF_vars(FinalCleanup)
    /\ WF_vars(\E a \in Accounts, success \in BOOLEAN : ConnectorCleanup(a, success))
    /\ WF_vars(\E flat \in BOOLEAN : VerifyFinalCleanup(flat))

FairSpecController == SpecController /\ FairController

----------------------------------------------------------------------------
(* Properties *)

OpenPlaced == {l \in LevelIds : grid_levels[l].state = "OPEN_ORDER_PLACED"}

\* |price - mid| / mid > activation_bounds
BeyondBounds(price) ==
    Abs(price - mid_price) * Den > config.activation_bounds[1] * mid_price

\* The live orders the venue holds for a slot of a level
LiveOrders(l, role) ==
    {i \in OpenIds : exchange[i].level = l /\ exchange[i].role = role}

\* A tick is at its cancels, and the order it cancels next
CancelStep ==
    /\ open_orders_to_create = <<>>
    /\ close_orders_to_create = <<>>
    /\ open_order_ids_to_cancel \o close_order_ids_to_cancel # <<>>

CancelledId == Head(open_order_ids_to_cancel \o close_order_ids_to_cancel)

\* C1: the levels in OPEN_ORDER_PLACED never exceed config.max_open_orders,
\* after a tick and after each placement inside it: the levels in
\* OPEN_ORDER_PLACED and the open orders the tick still has to place fit
\* under the cap together.
OpenOrdersWithinCap ==
    Cardinality(OpenPlaced) + Len(open_orders_to_create) <= config.max_open_orders

\* C1: the cap is reached while a further level is free and eligible
CapReached ==
    /\ status = "RUNNING"
    /\ Idle
    /\ Cardinality(OpenPlaced) = config.max_open_orders
    /\ \E l \in LevelIds :
          /\ grid_levels[l].state = "NOT_ACTIVE"
          /\ LevelAllowed(grid_levels[l].price)

\* C2: the stored state of every level is the state update_state derives
\* from its two slots, in every state: after a tick of either branch, after
\* a placement and after a cancel.
StateIsDerived ==
    \A l \in LevelIds :
        grid_levels[l].state =
            DerivedState(grid_levels[l].active_open_order,
                         grid_levels[l].active_close_order)

\* C2: the executor has shut down and left a level whose open order is
\* filled and whose close slot is empty
FilledLevelAfterShutdown ==
    /\ status = "TERMINATED"
    /\ \E l \in LevelIds :
          /\ grid_levels[l].state = "OPEN_ORDER_FILLED"
          /\ grid_levels[l].active_open_order.is_filled
          /\ grid_levels[l].active_close_order = None

\* C3: a step never changes a tracked order that is done: as long as the
\* slot holds the order, is_filled, is_done, the executed amounts and the
\* fees stay what they were when it became done.
DoneOrderKept(t, u) == (t.is_done /\ u.order_id = t.order_id) => u = t

DoneOrdersKeep ==
    [][\A l \in LevelIds :
          /\ DoneOrderKept(grid_levels[l].active_open_order,
                           grid_levels'[l].active_open_order)
          /\ DoneOrderKept(grid_levels[l].active_close_order,
                           grid_levels'[l].active_close_order)]_vars

\* C3: a tick saw an open order filled, with amounts and fees, and polled
\* it again
DoneOrderPolled ==
    \E l \in LevelIds :
        /\ grid_levels[l].state = "CLOSE_ORDER_PLACED"
        /\ grid_levels[l].active_open_order.is_done
        /\ grid_levels[l].active_open_order.executed_amount_base > 0
        /\ grid_levels[l].active_open_order.cum_fees_quote > 0

\* C4: no level is COMPLETE and no level holds a filled close order in any
\* state: the tick that sees both orders of a level filled resets the level
\* before it ends.
NoLevelStaysComplete ==
    \A l \in LevelIds :
        /\ grid_levels[l].state # "COMPLETE"
        /\ ~grid_levels[l].active_close_order.is_filled

\* C4: a cycle was completed and its level reset
CycleCompleted ==
    /\ filled_orders >= 2
    /\ \E l \in LevelIds :
          /\ grid_levels[l].state = "NOT_ACTIVE"
          /\ grid_levels[l].active_open_order = None
          /\ grid_levels[l].active_close_order = None

\* C5: the venue holds at most one live open order and at most one live
\* close order for a level.
OneLiveOrderPerSlot ==
    \A l \in LevelIds, role \in {"open", "close"} :
        Cardinality(LiveOrders(l, role)) <= 1

\* C6, as stated: a cancel leaves every slot as it is.
CancelKeepsSlot == [][CancelStep => grid_levels' = grid_levels]_vars

\* C6, amended: a cancel empties the slot of its order only when the venue
\* has cancelled the order; otherwise it leaves every level as it is.
CancelClearsOnlyCancelled ==
    [][CancelStep =>
          \/ /\ CancelledId \in TrackedIds(grid_levels')
             /\ grid_levels' = grid_levels
          \/ /\ CancelledId \notin TrackedIds(grid_levels')
             /\ exchange'[CancelledId].status # "open"]_vars

\* C6: a tick cancels, for its distance, an order that a level holds in a
\* slot and that is live at the venue
CancelOfLiveOrder ==
    /\ CancelStep
    /\ Truthy(config.activation_bounds)
    /\ CancelledId \in TrackedIds(grid_levels)
    /\ CancelledId \in OpenIds
    /\ BeyondBounds(exchange[CancelledId].price)

NoOpenOrderAtZeroBounds ==
    config.activation_bounds = <<0>> =>
        /\ open_orders_to_create = <<>>
        /\ \A i \in OrderSlots : exchange[i].role # "open"

\* C9: an open order is placed only outside the cooldown: a level gets an
\* open order only when order_frequency seconds have passed since the last
\* one.
OnePlacementPerCooldown ==
    [][(\E l \in LevelIds :
           /\ grid_levels[l].active_open_order = None
           /\ grid_levels'[l].active_open_order # None)
       => ~InCooldown]_vars

\* C10: every close order at the venue has the side opposite to the grid's,
\* position action CLOSE, reduce_only and the positionSide of the grid; every
\* open order has the grid's side, position action OPEN and no reduce_only.
OrdersCarryGridSides ==
    \A i \in OrderIds :
        /\ exchange[i].role = "close" =>
              /\ exchange[i].side = (IF config.side = "BUY" THEN "SELL" ELSE "BUY")
              /\ exchange[i].position_action = "CLOSE"
              /\ exchange[i].reduce_only
              /\ exchange[i].positionSide =
                    (IF config.side = "BUY" THEN "LONG" ELSE "SHORT")
        /\ exchange[i].role = "open" =>
              /\ exchange[i].side = config.side
              /\ exchange[i].position_action = "OPEN"
              /\ ~exchange[i].reduce_only

\* C10: the venue holds a close order of a short grid next to an open order
CloseOrderAtVenue ==
    /\ config.side = "SELL"
    /\ \E i \in OpenIds : exchange[i].role = "close"
    /\ \E i \in OpenIds : exchange[i].role = "open"

\* The venue's record i is an order the step has placed
Placed(i) ==
    /\ exchange'[i] # exchange[i]
    /\ exchange'[i].status = "open"
    /\ exchange'[i].filled = 0

\* C11: the price of a close order as sent to the venue is not below the
\* mid-price of the step that builds it in a long grid, and not above it in
\* a short grid.
ClosePriceNotThroughMid ==
    [][\A i \in OrderSlots :
          (Placed(i) /\ exchange'[i].role = "close") =>
              IF config.side = "BUY"
              THEN exchange'[i].price >= mid_price
              ELSE exchange'[i].price <= mid_price]_vars

\* The venue has ended the open order of level l before it was filled
OpenOrderEnded(l) ==
    LET id == grid_levels[l].active_open_order.order_id IN
    /\ id # 0
    /\ exchange[id].status \in {"canceled", "expired"}

StatusOf(order_data) ==
    Upper(IF "X" \in DOMAIN order_data THEN order_data.X ELSE order_data.status)

\* C13: after an order update, is_filled is true exactly for the statuses
\* FILLED and CLOSED, and is_done exactly for FILLED, CLOSED, CANCELED,
\* EXPIRED and REJECTED, in either shape and either case.
StatusSetsFlags ==
    last_call.op = "update_from_exchange_data" =>
        LET st == StatusOf(last_call.order_data) IN
        /\ last_call.order.is_filled <=> st \in {"FILLED", "CLOSED"}
        /\ last_call.order.is_done <=>
              st \in {"FILLED", "CLOSED", "CANCELED", "EXPIRED", "REJECTED"}

\* C14: the ladder builder returns normally with at least one level, and
\* the amounts of its levels add up to at most 1.05 times
\* total_amount_quote.
LadderWithinBudget ==
    last_call.op = "_generate_grid_levels" =>
        /\ ~last_call.result.raised
        /\ LET levels == last_call.result.levels IN
           /\ Len(levels) >= 1
           /\ 100 * Len(levels) * levels[1].amount_quote
                 <= 105 * last_call.config.total_amount_quote

\* C15: a ladder of one level has the price (start_price + end_price) / 2;
\* a longer one has the prices start_price + i * (end_price - start_price)
\* / (N - 1), each the float nearest to that value, so that the first is
\* start_price and the last is end_price; the prices increase with the
\* index and the levels have one amount.
LadderPricesLinear ==
    (last_call.op = "_generate_grid_levels" /\ ~last_call.result.raised) =>
        LET levels == last_call.result.levels
            n == Len(levels)
            start_price == last_call.config.start_price
            end_price == last_call.config.end_price
        IN  /\ n = 1 =>
                  SameValue(levels[1].price, <<start_price + end_price, 2>>)
            /\ n > 1 =>
                  \A i \in 1 .. n :
                      SameValue(levels[i].price,
                                RoundToFloat(start_price * (n - 1)
                                               + (i - 1) * (end_price - start_price),
                                             n - 1))
            /\ \A i \in 1 .. (n - 1) : Less(levels[i].price, levels[i + 1].price)
            /\ \A i \in 1 .. n : levels[i].amount_quote = levels[1].amount_quote

BookAboveMinNotional ==
    \A i \in OrderIds :
        exchange[i].amount * exchange[i].price >= trading_rules.min_notional_size

\* A pass of control_task over an open candidate below min_notional_size
\* submits nothing and leaves the level as it is
RefusedOpenLeavesLevel ==
    (/\ open_orders_to_create # <<>>
     /\ ~NotionalOk(OpenCandidate(Head(open_orders_to_create))))
        => /\ exchange' = exchange
           /\ grid_levels' = grid_levels

\* A pass of control_task over a close candidate below min_notional_size
\* submits nothing and leaves the close slot of the level empty
RefusedCloseLeavesLevel ==
    (/\ open_orders_to_create = <<>>
     /\ close_orders_to_create # <<>>
     /\ LET l == Head(close_orders_to_create) IN
        ~NotionalOk(CloseCandidate(l, grid_levels[l])))
        => LET l == Head(close_orders_to_create) IN
           /\ {i \in OrderSlots : exchange'[i].status = "open"} \subseteq OpenIds
           /\ grid_levels'[l].active_close_order = None

\* C17: every limit order in the venue's book is worth at least
\* min_notional_size at its quantized amount and price, and a candidate
\* below min_notional_size is not submitted and no tracked order is put
\* into the slot of its level.
SubmittedAboveMinNotional ==
    /\ []BookAboveMinNotional
    /\ [][RefusedOpenLeavesLevel /\ RefusedCloseLeavesLevel]_vars

\* With no activation bounds every level without an order is a candidate of
\* the tick: one level has its open order, the other was refused for its
\* notional value and holds none
OpenRefusedBelowMinNotional ==
    /\ config.activation_bounds = <<>>
    /\ Idle
    /\ \E l, k \in LevelIds :
          /\ ~NotionalOk(OpenCandidate(l))
          /\ grid_levels[l].state = "NOT_ACTIVE"
          /\ grid_levels[l].active_open_order = None
          /\ grid_levels[k].state = "OPEN_ORDER_PLACED"
          /\ exchange[Home(k, "open")].status = "open"

\* The steps of start() that have been entered are the first ones of
\* StartSteps, none left out
StepsInSequence ==
    \A step \in controller.steps_run :
        \A i \in 1 .. (StepIndex(step) - 1) : StartSteps[i] \in controller.steps_run

\* An executor is RUNNING only after both connectors answered, both
\* cleanups returned success and both balances cover the grid
StartedAfterChecks ==
    (\E e \in Executors : controller.executors[e] = "RUNNING")
        => /\ controller.connected = Accounts
           /\ controller.cleaned = Accounts
           /\ \A a \in Accounts :
                 controller.available[a] * Leverage >= AmountQuote

\* After a failed step no later step is entered, stop() is called and
\* start() ends by raising, never by returning
FailsFast ==
    controller.failed_step # "none" =>
        /\ \A step \in controller.steps_run :
              StepIndex(step) <= StepIndex(controller.failed_step)
        /\ controller.stop.caller = "start"
        /\ controller.stop.pc # "none"
        /\ controller.start_pc \in {"stopping", "raised"}
        /\ controller.start_pc = "raised" => controller.stop.pc = "done"
        /\ \A e \in Executors : controller.executors[e] # "RUNNING"

\* C18: start() runs its steps in sequence and fails fast: no executor is
\* RUNNING unless connectivity was verified for both accounts, the cleanup
\* of both accounts succeeded and the balance check passed for each
\* account; after a failed step no later step runs, stop() is called and
\* the error is raised.
StartInSequenceFailingFast ==
    /\ StepsInSequence
    /\ StartedAfterChecks
    /\ FailsFast

\* start() has returned with both executors RUNNING
StartedBothExecutors ==
    /\ controller.start_pc = "returned"
    /\ controller.is_running
    /\ \A e \in Executors : controller.executors[e] = "RUNNING"

\* stop(): an executor's stop() runs only when no task of executor_tasks is
\* left running, the cleanup of an account only when the stop() of every
\* executor there is has ended, well or not, and the verification only when
\* the cleanup of every connector there is has ended, well or not
StopStepsOrdered ==
    /\ (\E e \in Executors : controller.stop.shutdown[e] # "none")
          => \A e \in Executors :
                controller.executor_tasks[e] \in {"none", "done", "cancelled"}
    /\ (\E a \in Accounts : controller.stop.cleanup[a] # "none")
          => \A e \in Executors :
                controller.executors[e] # "none"
                   => controller.stop.shutdown[e] \in {"ok", "failed"}
    /\ controller.stop.verified # "none"
          => /\ \A a \in controller.connectors :
                   controller.stop.cleanup[a] \in {"ok", "failed"}
             /\ \A e \in Executors :
                   controller.executors[e] # "none"
                      => controller.stop.shutdown[e] \in {"ok", "failed"}
             /\ controller.stop.pc = "done"

\* stop(): after the verification nothing more of this call of stop() runs
VerificationLast ==
    (controller.stop.verified # "none" /\ controller'.stop.verified # "none")
        => controller'.stop = controller.stop

\* C19: stop() cancels the tasks of executor_tasks before an executor's own
\* shutdown runs, lets both executors' shutdowns finish before the final
\* cleanup of the accounts starts, and verifies last; the shutdown of one
\* executor or the cleanup of one account that fails does not keep the
\* other from being attempted.
StopInOrder ==
    /\ []StopStepsOrdered
    /\ [][VerificationLast]_vars

\* stop() has cancelled both tasks and has come to its end although the
\* shutdown of the long executor and the cleanup of account A failed; the
\* short executor and account B were shut down and cleaned
StoppedDespiteFailures ==
    /\ controller.stop.pc = "done"
    /\ \A e \in Executors : controller.executor_tasks[e] = "cancelled"
    /\ controller.stop.shutdown = [e \in Executors |->
                                      IF e = "long" THEN "failed" ELSE "ok"]
    /\ controller.stop.cleanup = [a \in Accounts |->
                                     IF a = "A" THEN "failed" ELSE "ok"]
    /\ controller.executors["short"] = "TERMINATED"

\* The supervisor is running and the executor is SHUTTING_DOWN
ShuttingDownWhileRunning(e) ==
    controller.is_running /\ controller.executors[e] = "SHUTTING_DOWN"

\* stop() has been called and the executor is TERMINATED
StoppedAndTerminated(e) ==
    controller.stop.pc # "none" /\ controller.executors[e] = "TERMINATED"

\* C20: while the supervisor is running, an executor that enters
\* SHUTTING_DOWN leads to a call of stop() and to the other executor being
\* TERMINATED, whichever task runs first after the transition.
ShutdownStopsTheOther ==
    /\ ShuttingDownWhileRunning("long") ~> StoppedAndTerminated("short")
    /\ ShuttingDownWhileRunning("short") ~> StoppedAndTerminated("long")

\* The long executor shut down at its retry limit and the task of its loop
\* ended without being cancelled; stop() was called by the monitor and has
\* come to its end with the short executor TERMINATED
OtherStoppedAfterShutdown ==
    /\ controller.retries["long"] = MaxRetries
    /\ controller.retries["short"] = 0
    /\ controller.executor_tasks["long"] = "done"
    /\ controller.stop.caller = "monitor"
    /\ controller.stop.pc = "done"
    /\ controller.executors["short"] = "TERMINATED"

----------------------------------------------------------------------------
(* Failed ticks *)

\* control_task with status RUNNING raises no exception
TickSucceeds == \E ok \in {Tracked, {}} : ControlTaskRunning(ok, FALSE)

\* control_task with status RUNNING raises an exception
TickFails == \E ok \in {Tracked, {}} : ControlTaskRunning(ok, TRUE)

\* The test of control_task's except branch after one more failed tick
ThresholdAtNextFailure == current_retries + 1 >= config.max_retries

\* C21: a failed tick adds one to the retry counter, and failed ticks that
\* are separated by a successful tick do not add up: after a successful
\* tick the executor bears max_retries - 1 failed ticks again, so with
\* max_retries above one the failure of the next tick does not shut it down
FailedTicksCountConsecutive ==
    [][/\ TickFails => current_retries' = current_retries + 1
       /\ TickSucceeds /\ config.max_retries > 1 => ~ThresholdAtNextFailure']_vars


----------------------------------------------------------------------------
(* Configuration validation *)

\* C22: validate_config accepts a configuration only if start_price <
\* end_price, total_amount_quote > 0, max_open_orders > 0 and
\* take_profit_pct > 0; every other configuration is rejected
ValidationRejectsBadConfigs ==
    last_call.op = "validate_config" /\ last_call.accepted =>
        /\ last_call.config.start_price < last_call.config.end_price
        /\ last_call.config.total_amount_quote > 0
        /\ last_call.config.max_open_orders > 0
        /\ last_call.config.take_profit_pct > 0

\* What validate_config does check: an accepted configuration has its
\* credentials set, start_price < end_price, total_amount_quote > 0 and
\* max_open_orders > 0
ValidationChecksThree ==
    last_call.op = "validate_config" /\ last_call.accepted =>
        /\ last_call.config.start_price < last_call.config.end_price
        /\ last_call.config.total_amount_quote > 0
        /\ last_call.config.max_open_orders > 0

----------------------------------------------------------------------------
(* Failed place and cancel calls *)

\* The outcomes of a call in which the venue returns no order (place),
\* returns no confirmation (cancel) or the call raises
FailedOutcomes == {"fail", "lost"}

\* The loop over open_orders_to_create is at a place call: the cap check
\* before it does not break the loop
OpenAttempt ==
    /\ open_orders_to_create # <<>>
    /\ Cardinality(OpenPlaced) < config.max_open_orders

\* C23: a place call that fails attaches no tracked order and leaves every
\* level as it was, the attempted level in the state its candidates are
\* drawn from (NOT_ACTIVE with an empty open slot for an open order,
\* OPEN_ORDER_FILLED with an empty close slot for a close order) and the
\* cooldown clock untouched, so that the next tick decides on the level as
\* this tick did; a cancel call that fails leaves every level as it was
FailedCallLeavesLevel ==
    [][/\ \A outcome \in FailedOutcomes :
             OpenAttempt /\ PlaceOpenOrder(outcome) =>
                 LET l == Head(open_orders_to_create) IN
                 /\ grid_levels' = grid_levels
                 /\ since_open_creation' = since_open_creation
                 /\ grid_levels'[l].active_open_order = None
                 /\ grid_levels'[l].state = "NOT_ACTIVE"
       /\ \A outcome \in FailedOutcomes, cancel_outcome \in CancelOutcomes :
             PlaceCloseOrder(outcome, cancel_outcome) =>
                 LET l == Head(close_orders_to_create) IN
                 /\ grid_levels' = grid_levels
                 /\ grid_levels'[l].active_close_order = None
                 /\ grid_levels'[l].state = "OPEN_ORDER_FILLED"
       /\ \A outcome \in FailedOutcomes :
             CancelOpenOrder(outcome) \/ CancelCloseOrder(outcome) =>
                 grid_levels' = grid_levels]_vars

\* An open order that the venue accepted while the place call raised: it
\* is live at the venue, no level tracks it, and its level is NOT_ACTIVE
\* and is being attempted again by a later tick
LostPlaceAttemptedAgain ==
    \E i \in OpenIds \ Tracked :
        /\ exchange[i].role = "open"
        /\ status = "RUNNING"
        /\ grid_levels[exchange[i].level].state = "NOT_ACTIVE"
        /\ open_orders_to_create # <<>>
        /\ Head(open_orders_to_create) = exchange[i].level

\* C24: in a RUNNING tick a place or cancel call that fails or raises
\* takes its own entry off the tick's lists and nothing else, so the places
\* and cancels decided after it are still issued (the open loop goes on
\* to the place call of its next level), and the failure leaves the retry
\* counter and the status as they were
FailedCallKeepsTickGoing ==
    [][\A outcome \in FailedOutcomes :
          /\ OpenAttempt /\ PlaceOpenOrder(outcome) =>
                /\ open_orders_to_create' = Tail(open_orders_to_create)
                /\ Tail(open_orders_to_create) # <<>> => OpenAttempt'
                /\ UNCHANGED <<close_orders_to_create, open_order_ids_to_cancel,
                               close_order_ids_to_cancel, current_retries, status>>
          /\ (\E cancel_outcome \in CancelOutcomes :
                    PlaceCloseOrder(outcome, cancel_outcome)) =>
                /\ close_orders_to_create' = Tail(close_orders_to_create)
                /\ UNCHANGED <<open_orders_to_create, open_order_ids_to_cancel,
                               close_order_ids_to_cancel, current_retries, status>>
          /\ CancelOpenOrder(outcome) =>
                /\ open_order_ids_to_cancel' = Tail(open_order_ids_to_cancel)
                /\ UNCHANGED <<open_orders_to_create, close_orders_to_create,
                               close_order_ids_to_cancel, current_retries, status>>
          /\ CancelCloseOrder(outcome) =>
                /\ close_order_ids_to_cancel' = Tail(close_order_ids_to_cancel)
                /\ UNCHANGED <<open_orders_to_create, close_orders_to_create,
                               open_order_ids_to_cancel, current_retries, status>>]_vars

\* The first place call of a tick failed (its order is live at the venue,
\* untracked, and its level still NOT_ACTIVE), the tick is at the place call
\* of the other level, and no retry has been counted
NextPlaceIssuedAfterFailure ==
    \E i \in OpenIds \ Tracked :
        /\ exchange[i].role = "open"
        /\ grid_levels[exchange[i].level].state = "NOT_ACTIVE"
        /\ \A l \in LevelIds : LevelAllowed(grid_levels[l].price)
        /\ status = "RUNNING"
        /\ current_retries = 0
        /\ OpenAttempt
        /\ Head(open_orders_to_create) # exchange[i].level

----------------------------------------------------------------------------
(* Cancels for distance *)

\* The orders a tick has decided to cancel
CancelDecided(opens, closes) ==
    {opens[k] : k \in 1 .. Len(opens)} \cup {closes[k] : k \in 1 .. Len(closes)}

\* The orders a tick is to cancel: activation_bounds is set (not None), the
\* level was bucketed OPEN_ORDER_PLACED or CLOSE_ORDER_PLACED and the order of
\* that slot is farther from the mid-price than the bounds
CancelDue(polled, levels) ==
    {id \in OrderSlots :
        /\ config.activation_bounds # <<>>
        /\ \E l \in LevelIds :
              \/ /\ polled[l].state = "OPEN_ORDER_PLACED"
                 /\ levels[l].active_open_order.order_id = id
                 /\ TooFar(levels[l].active_open_order)
              \/ /\ polled[l].state = "CLOSE_ORDER_PLACED"
                 /\ levels[l].active_close_order.order_id = id
                 /\ TooFar(levels[l].active_close_order)}

\* C25: the orders a RUNNING tick decides to cancel are exactly the orders
\* of levels bucketed OPEN_ORDER_PLACED or CLOSE_ORDER_PLACED at the tick's
\* state derivation whose price is farther from the mid-price than
\* activation_bounds, when activation_bounds is set; with activation_bounds
\* None the tick cancels nothing
CancelsExactlyBeyondBounds ==
    [][\A ok \in {Tracked, {}} :
          ControlTaskRunning(ok, FALSE) =>
              LET polled == PolledLevels(update_all_order_status(grid_levels, ok), ok)
              IN  CancelDecided(open_order_ids_to_cancel',
                                close_order_ids_to_cancel')
                      = CancelDue(polled, grid_levels')]_vars

----------------------------------------------------------------------------
(* The amount of a close order *)

\* The greatest multiple of min_base_amount_increment that does not exceed
\* the executed amount of an open order, less a thousandth of it when the
\* order carries fees
ExpectedCloseAmount(open) ==
    LET reduced == IF open.cum_fees_quote > 0
                   THEN open.executed_amount_base * FeeAdjustmentDen
                            - open.executed_amount_base
                   ELSE open.executed_amount_base * FeeAdjustmentDen
    IN  CHOOSE q \in 0 .. open.executed_amount_base :
            /\ q % trading_rules.min_base_amount_increment = 0
            /\ q * FeeAdjustmentDen <= reduced
            /\ (q + trading_rules.min_base_amount_increment) * FeeAdjustmentDen
                   > reduced

\* The orders a step has put on the venue's book
NewOrders == {i \in OrderSlots : exchange[i].status = "none"
                                    /\ exchange'[i].status # "none"}

\* C26: a close order placed for a level has the open order's
\* executed_amount_base, less the fee adjustment when the open order carries
\* fees, rounded down to min_base_amount_increment, which never exceeds
\* executed_amount_base; when that amount is below min_order_size no order
\* is placed and the level stays OPEN_ORDER_FILLED with an empty close slot
CloseAmountIsExecutedAmount ==
    [][\A outcome \in PlaceOutcomes, cancel_outcome \in CancelOutcomes :
          PlaceCloseOrder(outcome, cancel_outcome) =>
              LET l == Head(close_orders_to_create)
                  open == grid_levels[l].active_open_order
                  expected == ExpectedCloseAmount(open)
              IN  /\ \A i \in NewOrders :
                        /\ exchange'[i].role = "close"
                        /\ exchange'[i].amount = expected
                        /\ exchange'[i].amount <= open.executed_amount_base
                  /\ outcome = "ok" /\ expected >= trading_rules.min_order_size
                         /\ NotionalOk(CloseCandidate(l, grid_levels[l]))
                         => NewOrders # {}
                  /\ expected < trading_rules.min_order_size =>
                        /\ NewOrders = {}
                        /\ grid_levels'[l].state = "OPEN_ORDER_FILLED"
                        /\ grid_levels'[l].active_close_order = None]_vars

\* A close order is live at the venue for less than its level's open order
\* executed, the open order carrying fees
CloseOrderLessFees ==
    \E l \in LevelIds :
        /\ grid_levels[l].state = "CLOSE_ORDER_PLACED"
        /\ grid_levels[l].active_open_order.cum_fees_quote > 0
        /\ grid_levels[l].active_close_order.order_id \in OpenIds
        /\ exchange[grid_levels[l].active_close_order.order_id].amount
              < grid_levels[l].active_open_order.executed_amount_base
        /\ exchange[grid_levels[l].active_close_order.order_id].amount > 0

----------------------------------------------------------------------------
(* The order of the steps of a tick *)

\* The refresh of a tick that asks for the orders ok learns that the open
\* order of level l, not known to be filled so far, is filled
FillReportedAtRefresh(l, ok) ==
    /\ grid_levels[l].active_open_order # None
    /\ ~grid_levels[l].active_open_order.is_filled
    /\ grid_levels[l].active_open_order.order_id \in ok
    /\ exchange[grid_levels[l].active_open_order.order_id].status = "closed"

\* C27: the places and cancels of a tick follow its refresh, state
\* derivation and decisions: the lists of a tick are filled by the decision
\* step alone, which decides on the refreshed levels, and orders are placed
\* and cancelled from these lists only; so an open order that the refresh
\* of a tick reports filled has its level OPEN_ORDER_FILLED in that tick and,
\* its take-profit price being within the bounds, its close order decided in
\* that tick
TickDecidesOnRefreshedState ==
    [][/\ Idle /\ ~Idle' => TickSucceeds
       /\ NewOrders # {} => ~Idle
       /\ \A ok \in {Tracked, {}} :
             ControlTaskRunning(ok, FALSE) =>
                 \A l \in LevelIds :
                     FillReportedAtRefresh(l, ok) =>
                         /\ grid_levels'[l].state = "OPEN_ORDER_FILLED"
                         /\ CloseAllowed(grid_levels'[l]) =>
                                \E k \in 1 .. Len(close_orders_to_create') :
                                    close_orders_to_create'[k] = l]_vars

\* A tick has decided the close order of a level whose open order is
\* filled while the venue holds no close order for the level yet
CloseDecidedForFilledOpen ==
    /\ close_orders_to_create # <<>>
    /\ LET l == Head(close_orders_to_create) IN
          /\ grid_levels[l].state = "OPEN_ORDER_FILLED"
          /\ grid_levels[l].active_open_order.is_filled
          /\ exchange[grid_levels[l].active_open_order.order_id].status = "closed"
          /\ \A i \in OrderSlots :
                exchange[i].status # "none" => exchange[i].role = "open"

----------------------------------------------------------------------------
(* The order of open placements *)

\* |level.price - mid|
Distance(l) == Abs(grid_levels[l].price - mid_price)

\* The levels a tick may open: bucketed NOT_ACTIVE and passed by the
\* activation filter
Eligible(polled) ==
    {l \in LevelIds : polled[l].state = "NOT_ACTIVE" /\ LevelAllowed(polled[l].price)}

\* C28: the open-order candidates of a tick are eligible levels in order of
\* ascending distance to the mid-price, every eligible level strictly
\* closer than a candidate comes before it, and they are at most
\* max_open_orders less the levels bucketed OPEN_ORDER_PLACED; the loop
\* attempts them from the front, one per pass, so a level is attempted
\* after every closer candidate
OpensNearestFirst ==
    [][/\ \A ok \in {Tracked, {}} :
             ControlTaskRunning(ok, FALSE) =>
                 LET polled == PolledLevels(update_all_order_status(grid_levels, ok), ok)
                     candidates == open_orders_to_create'
                 IN  /\ \A k \in 1 .. Len(candidates) :
                           /\ candidates[k] \in Eligible(polled)
                           /\ \A m \in Eligible(polled) :
                                 Distance(m) < Distance(candidates[k]) =>
                                     \E j \in 1 .. (k - 1) : candidates[j] = m
                     /\ Len(candidates) <=
                           config.max_open_orders
                               - Len(levels_by_state(polled, "OPEN_ORDER_PLACED"))
       /\ \A outcome \in PlaceOutcomes :
             OpenAttempt /\ PlaceOpenOrder(outcome) =>
                 /\ open_orders_to_create' = Tail(open_orders_to_create)
                 /\ \A i \in NewOrders :
                       /\ exchange'[i].role = "open"
                       /\ exchange'[i].level = Head(open_orders_to_create)
       /\ open_orders_to_create # <<>> =>
             open_orders_to_create' \in {open_orders_to_create,
                                         Tail(open_orders_to_create), <<>>}]_vars

\* A tick has decided to open two levels, the nearer one first and against
\* the order of the ladder
NearerLevelFirst ==
    /\ Len(open_orders_to_create) = 2
    /\ open_orders_to_create[1] > open_orders_to_create[2]
    /\ Distance(open_orders_to_create[1]) < Distance(open_orders_to_create[2])

----------------------------------------------------------------------------
(* The cooldown *)

\* C29: a RUNNING tick inside the order_frequency cooldown decides no open
\* order, and decides its close orders and its cancels as any tick does: a
\* close order for every level bucketed OPEN_ORDER_FILLED whose take-profit
\* price is within the bounds, and a cancel for every order of a PLACED
\* level beyond the bounds
CooldownSuppressesOpensOnly ==
    [][\A ok \in {Tracked, {}} :
          InCooldown /\ ControlTaskRunning(ok, FALSE) =>
              LET polled == PolledLevels(update_all_order_status(grid_levels, ok), ok)
              IN  /\ open_orders_to_create' = <<>>
                  /\ {close_orders_to_create'[k] :
                          k \in 1 .. Len(close_orders_to_create')}
                        = {l \in LevelIds :
                              /\ polled[l].state = "OPEN_ORDER_FILLED"
                              /\ CloseAllowed(grid_levels'[l])}
                  /\ CancelDecided(open_order_ids_to_cancel',
                                   close_order_ids_to_cancel')
                        = CancelDue(polled, grid_levels')]_vars

\* A tick inside the cooldown (a second after the last open placement, none
\* placed since) has decided a close order
CloseDecidedInCooldown ==
    /\ status = "RUNNING"
    /\ since_open_creation > 0
    /\ InCooldown
    /\ close_orders_to_create # <<>>

----------------------------------------------------------------------------
(* The ladder *)

\* What _generate_grid_levels gives a level for good
LadderFields(level) ==
    [id |-> level.id, price |-> level.price, amount_quote |-> level.amount_quote,
     side |-> level.side, order_type |-> level.order_type,
     take_profit_pct |-> level.take_profit_pct]

\* C30: no step adds or removes a level or changes a level's id, price,
\* amount_quote, side, order type or take_profit_pct; a step changes the
\* two order slots and the state of a level at most
LadderIsFixed ==
    [][/\ DOMAIN grid_levels' = DOMAIN grid_levels
       /\ \A l \in DOMAIN grid_levels :
             /\ DOMAIN grid_levels'[l] = DOMAIN grid_levels[l]
             /\ LadderFields(grid_levels'[l]) = LadderFields(grid_levels[l])]_vars

\* The executor has run a level through a whole cycle, reset it, and has
\* been stopped, and the ladder is the one it was constructed with
LadderKeptThroughCycle ==
    /\ filled_orders >= 2
    /\ status = "TERMINATED"
    /\ \A l \in LevelIds :
          LadderFields(grid_levels[l])
              = LadderFields(NewLevel(l, config.total_amount_quote \div NumLevels))

----------------------------------------------------------------------------
(* Rejected orders *)

\* The venue reports the order REJECTED to a tick that asks for the orders ok
RejectedAtRefresh(order, ok) ==
    /\ order # None
    /\ order.order_id \in ok
    /\ exchange[order.order_id].status = "rejected"

\* C31: the tick to which the venue reports an open order REJECTED clears
\* the open slot and leaves the level NOT_ACTIVE; the tick to which it
\* reports a close order REJECTED clears the close slot and leaves the level
\* OPEN_ORDER_FILLED
RejectedOrderCleared ==
    [][\A ok \in {Tracked, {}} :
          ControlTaskRunning(ok, FALSE) =>
              \A l \in LevelIds :
                  /\ RejectedAtRefresh(grid_levels[l].active_open_order, ok) =>
                        /\ grid_levels'[l].active_open_order = None
                        /\ grid_levels'[l].state = "NOT_ACTIVE"
                  /\ RejectedAtRefresh(grid_levels[l].active_close_order, ok) =>
                        /\ grid_levels'[l].active_close_order = None
                        /\ grid_levels'[l].state = "OPEN_ORDER_FILLED"]_vars

----------------------------------------------------------------------------
(* The websocket reconnect loop *)

\* The delay the claim gives for the k-th consecutive reconnection attempt
BackoffDelay(k) == Min(5 * PowerOfTwo(k - 1), 60)

PassWithoutConnectionBacksOff ==
    [][(/\ websocket.task \in {"ready", "spinning", "connecting"}
        /\ websocket'.task \notin {"connecting", "connected"}) =>
              \/ websocket'.task = "done"
              \/ /\ websocket'.task = "sleeping"
                 /\ websocket'.reconnect_attempts = websocket.reconnect_attempts + 1
                 /\ websocket'.delay > 0
                 /\ ~websocket'.connection_healthy]_vars

----------------------------------------------------------------------------
(* A level after reset_level *)

\* The level l as _generate_grid_levels built it
FreshLevel(l) == NewLevel(l, config.total_amount_quote \div NumLevels)

\* C33: a level that has completed a cycle is, after reset_level, the level
\* that was built for its id, price and amount_quote, with both slots empty
\* and the state NOT_ACTIVE; the open-order candidates of a tick are the ones
\* chosen with never-used levels in the place of the levels it finds NOT_ACTIVE
ResetLevelIsFresh ==
    [][\A ok \in {Tracked, {}} :
          ControlTaskRunning(ok, FALSE) =>
              LET polled == PolledLevels(update_all_order_status(grid_levels, ok), ok)
                  unused == [l \in LevelIds |->
                                IF polled[l].state = "NOT_ACTIVE"
                                THEN FreshLevel(l) ELSE polled[l]]
              IN  /\ \A l \in LevelIds :
                        Completed(polled[l]) =>
                            /\ grid_levels'[l] = FreshLevel(l)
                            /\ grid_levels'[l].id = grid_levels[l].id
                            /\ grid_levels'[l].price = grid_levels[l].price
                            /\ grid_levels'[l].amount_quote = grid_levels[l].amount_quote
                  /\ open_orders_to_create' = get_open_orders_to_create(unused)]_vars

\* Every level is NOT_ACTIVE after at least one of them has completed a
\* cycle and has been reset, and a later tick has chosen all of them as
\* open-order candidates
ResetLevelSelectedAgain ==
    /\ filled_orders >= 2
    /\ \A l \in LevelIds : grid_levels[l] = FreshLevel(l)
    /\ Len(open_orders_to_create) = NumLevels

----------------------------------------------------------------------------
(* The status of an executor *)

\* The place of a status on NOT_STARTED -> RUNNING -> SHUTTING_DOWN ->
\* TERMINATED; an executor that was not created has no status
StatusRank(executor_status) ==
    CASE executor_status = "none" -> 0
      [] executor_status = "NOT_STARTED" -> 1
      [] executor_status = "RUNNING" -> 2
      [] executor_status = "SHUTTING_DOWN" -> 3
      [] executor_status = "TERMINATED" -> 4

\* C34: the status of an executor only moves forward along NOT_STARTED ->
\* RUNNING -> SHUTTING_DOWN -> TERMINATED, and once it is TERMINATED no
\* operation, a stop() of the controller included, changes it
StatusOnlyMovesForward ==
    [][\A e \in Executors :
          /\ StatusRank(controller'.executors[e]) >= StatusRank(controller.executors[e])
          /\ controller.executors[e] = "TERMINATED" =>
                controller'.executors[e] = "TERMINATED"]_vars

----------------------------------------------------------------------------
(* Orders are placed in RUNNING ticks only *)

\* C35: an open order or a take-profit close order is placed, or a place
\* call is made at all, only by a tick whose status is RUNNING and stays
\* RUNNING over the placement; an executor whose status is SHUTTING_DOWN or
\* TERMINATED has no placement left to make and brings no new order to the
\* venue, wherever stop() or the retry limit came in between its ticks
PlacesOnlyWhileRunning ==
    [][/\ NewOrders # {} => (status = "RUNNING" /\ status' = "RUNNING")
       /\ (open_orders_to_create # <<>> \/ close_orders_to_create # <<>>) =>
              status = "RUNNING"
       /\ status' \in {"SHUTTING_DOWN", "TERMINATED"} =>
              (open_orders_to_create' = <<>> /\ close_orders_to_create' = <<>>)]_vars

\* The executor has placed orders in its ticks and has then been stopped or
\* has reached the retry limit while the venue still holds one of them
StoppedAfterPlacing ==
    /\ status \in {"SHUTTING_DOWN", "TERMINATED"}
    /\ \E l \in LevelIds : LiveOrders(l, "open") \cup LiveOrders(l, "close") # {}

----------------------------------------------------------------------------
(* The loop tasks of an executor *)

\* The task start() created for _main_control_loop is alive and its next
\* pass calls control_task
MainLoopTicks(e) ==
    /\ controller.control_task_handle[e] = "pending"
    /\ controller.executors[e] = "RUNNING"

\* The controller's task for _run_executor_loop is alive and its next pass
\* calls control_task
ExecutorLoopTicks(e) ==
    /\ controller.executor_tasks[e] = "pending"
    /\ RunsControlTask(controller, e)

\* C36: control_task of an executor is driven by one periodic loop task: at
\* no time are the executor's own _main_control_loop and the controller's
\* _run_executor_loop both about to call control_task on it
OneLoopTaskPerExecutor ==
    \A e \in Executors : ~(MainLoopTicks(e) /\ ExecutorLoopTicks(e))

----------------------------------------------------------------------------
(* Every filled open order gets its close order *)

\* C37: while the executor stays RUNNING without activation bounds at a
\* venue that accepts every valid order, a level that is OPEN_ORDER_FILLED
\* eventually is CLOSE_ORDER_PLACED, whatever the fee adjustment and the
\* quantization make of the close amount
FilledLevelGetsCloseOrder ==
    \A l \in LevelIds :
        (grid_levels[l].state = "OPEN_ORDER_FILLED")
            ~> (grid_levels[l].state = "CLOSE_ORDER_PLACED")

----------------------------------------------------------------------------
(* Placing and cancelling at one mid-price *)

\* C38: at one mid-price the levels eligible for an open order and the open
\* orders cancelled for distance are disjoint: no tick cancels for distance
\* the open order of a level that the activation bounds admit at the
\* mid-price of that tick, so an order placed in one tick is not cancelled
\* in the next while the mid-price stands
EligibleNotCancelled ==
    [][\A ok \in {Tracked, {}} :
          ControlTaskRunning(ok, FALSE) =>
              \A k \in 1 .. Len(open_order_ids_to_cancel'), l \in LevelIds :
                  grid_levels[l].active_open_order.order_id
                          = open_order_ids_to_cancel'[k] =>
                      ~LevelAllowed(grid_levels[l].price)]_vars

----------------------------------------------------------------------------
(* The close price against the open price *)

\* C39: the price of a close order as sent to the venue is strictly above
\* the price the level's open order was sent at in a long grid, and strictly
\* below it in a short grid
ClosePriceBeyondOpenPrice ==
    [][\A i \in OrderSlots :
          (Placed(i) /\ exchange'[i].role = "close") =>
              LET open == grid_levels[exchange'[i].level].active_open_order
              IN  /\ open # None
                  /\ IF config.side = "BUY"
                     THEN exchange'[i].price > exchange[open.order_id].price
                     ELSE exchange'[i].price < exchange[open.order_id].price]_vars

====
